---- MODULE Spec2Model ----
(***************************************************************************)
(* Verification model of mistlib's media-plumbing core: the segmented      *)
(* byte buffer (lib/socket.cpp), the live DTSC stream buffer (lib/dtsc.h)  *)
(* and the FLV tag loader (lib/flv_tag.cpp).                               *)
(*                                                                         *)
(* Each subsystem has its own variables, initial predicate, actions and    *)
(* specification; a specification leaves the other subsystems' variables   *)
(* at their initial values.                                                *)
(***************************************************************************)
EXTENDS Integers, Sequences, FiniteSets, TLC

VARIABLES
  \* ---- Socket::Buffer -------------------------------------------------
  data,        \* std::deque<std::string>: data[1] is front(), data[Len] is back()
  bufRet,      \* value returned by the last remove()
  bufOp,       \* last operation: "init", "append" or "remove"
  bufArg,      \* argument of the last operation (the string, or the count)
  bufPre,      \* queued bytes (oldest first) before the last operation
  bufOps,      \* number of operations done
  bufLongs,    \* number of long (block-sized) appends done
  \* ---- DTSC::Stream ---------------------------------------------------
  buffers,     \* std::map<livePos,JSON::Value>: a set of [pos, time, kind, key]
  keyframes,   \* std::map<int,std::set<livePos> >: track -> set of livePos
  buffercount, \* minimum number of packets retained
  buffertime,  \* minimum time retained, in ms
  trackKind,   \* the stream metadata: track -> "video" or "audio"
  rings,       \* the Rings handed out: reader -> Ring record, or NoRing
  sLast,       \* what the last Stream operation did
  sAdds,       \* number of addPacket calls done
  sMaxAdds,    \* number of addPacket calls of this run
  sFeed,       \* the packets given to addPacket so far (scenario runs)
  sWait,       \* per reader: whether it is caught up, where, and what came since
  wPc,         \* where the writer is in addPacket
  wReg,        \* the writer's locals: the packet, its position, the new head
  wSnap,       \* the Stream before the last addPacket began, and after it
  \* ---- FLV::Tag -------------------------------------------------------
  tag,         \* the Tag: [data, len, buf, sofar, done, isKeyframe]
  Parse_Error, \* FLV::Parse_Error
  Header,      \* FLV::Header
  flvSigned,   \* whether char is a signed type in this build
  flvIn,       \* the byte stream fed to the loader
  flvOff,      \* number of bytes of flvIn before the caller's buffer D
  flvS,        \* S: the size of D
  flvP,        \* P: the position in D
  flvStart,    \* position in flvIn of the first byte of the tag being loaded
  flvLast,     \* what the last MemLoader call returned, for which bytes
  cOp,         \* the last Tag operation done: "none", "set", "get"
  cArg,        \* the argument of the last setter call
  cOut,        \* what the last getter or toJSON call returned
  cMeta,       \* the metadata toJSON works on: [track1, track2]
  \* ---- HTTP::Parser ---------------------------------------------------
  parser,      \* the Parser: its fields
  strbuf,      \* the input buffer handed to Read
  hIn,         \* the bytes that arrive: a message and what follows it
  hApp,        \* number of bytes of hIn appended to the buffer so far
  hLast,       \* the last Read call: what it returned, what was done so far
  conn,        \* conn.Received(): the deque of parts handed to Read(conn)
  \* ---- urlencode and urlunescape ----------------------------------------
  uOp,         \* the last call: "none", "urlencode", "urlunescape"
  uArg,        \* the string given to urlencode
  uOut,        \* what the last call returned
  \* ---- Socket::Connection, and the senders of HTTP::Parser -------------
  cTo,         \* the Connection written to: [sock, pipes, Error, up, down, remotehost]
  cFrom,       \* the Connection read from, its buffer being conn
  wire,        \* the bytes the descriptor of cTo has taken, in order
  fdLog,       \* the descriptors given to ::close(), in order
  kOp,         \* the last operation, its arguments and what it returned
  px,          \* the locals of Proxy: [pc, proxyingChunk, bodyLen]
  \* ---- Socket::Connection with its send buffer ------------------------
  upbuffer,    \* the deque of the send buffer of cTo
  fdFlags,     \* the file status flags of each descriptor of cTo
  given,       \* the bytes given to Send and SendNow so far, in order
  sOp,         \* the last call on cTo and what it did
  \* ---- DTSC::seekPos --------------------------------------------------
  spTriple,    \* three seek positions: [seekTime, bytePos, trackID] each
  spLess,      \* spLess[i][j]: what spTriple[i] < spTriple[j] returned
  \* ---- MP4::DTSC2MP4Converter -----------------------------------------
  metaData,    \* the tracks of the metadata, in the order ObjIter gives them
  keyParts,    \* the set of keyPart, as the sequence its iterator walks
  mp4Header,   \* what DTSCMeta2MP4Header put in the header it returned
  curKey,      \* parseDTSC's static iterator: an index of keyParts, 0 before
               \* the first call, Len(keyParts) + 1 at end()
  curPart,     \* parseDTSC's static count of parts of the current key
  trackBuffer, \* trackID -> the media parts queued for the track
  stringBuffer,\* the payloads put out and not yet fetched, in order
  mFetched,    \* the payloads sendString returned so far, in order
  mFed,        \* the media parts given to parseDTSC so far, in order
  mOp          \* the last call: [name, ready, end]

bufVars == <<data, bufRet, bufOp, bufArg, bufPre, bufOps, bufLongs>>

streamVars == <<buffers, keyframes, buffercount, buffertime, trackKind, rings,
                sLast, sAdds, sMaxAdds, sFeed, sWait>>

concVars == <<wPc, wReg, wSnap>>

flvVars == <<tag, Parse_Error, Header, flvSigned, flvIn, flvOff, flvS, flvP,
             flvStart, flvLast>>

convVars == <<cOp, cArg, cOut, cMeta>>

httpVars == <<parser, strbuf, hIn, hApp, hLast, conn>>

urlVars == <<uOp, uArg, uOut>>

sockVars == <<cTo, cFrom, wire, fdLog, kOp, px>>

sendVars == <<upbuffer, fdFlags, given, sOp>>

seekVars == <<spTriple, spLess>>

mp4Vars == <<metaData, keyParts, mp4Header, curKey, curPart, trackBuffer,
             stringBuffer, mFetched, mFed, mOp>>

vars == <<data, bufRet, bufOp, bufArg, bufPre, bufOps, bufLongs,
          buffers, keyframes, buffercount, buffertime, trackKind, rings,
          sLast, sAdds, sMaxAdds, sFeed, sWait, wPc, wReg, wSnap,
          tag, Parse_Error, Header, flvSigned, flvIn, flvOff, flvS, flvP,
          flvStart, flvLast, cOp, cArg, cOut, cMeta,
          parser, strbuf, hIn, hApp, hLast, conn, uOp, uArg, uOut,
          cTo, cFrom, wire, fdLog, kOp, px, upbuffer, fdFlags, given, sOp,
          spTriple, spLess,
          metaData, keyParts, mp4Header, curKey, curPart, trackBuffer,
          stringBuffer, mFetched, mFed, mOp>>

(***************************************************************************)
(* Generic helpers.                                                        *)
(***************************************************************************)
Min(a, b) == IF a < b THEN a ELSE b

RECURSIVE SeqsUpTo(_, _)
SeqsUpTo(S, n) ==
  IF n = 0 THEN {<<>>}
  ELSE LET T == SeqsUpTo(S, n - 1)
       IN  T \cup {Append(t, x) : t \in {u \in T : Len(u) = n - 1}, x \in S}

(***************************************************************************)
(* Socket::Buffer (lib/socket.cpp)                                         *)
(***************************************************************************)
BUFFER_BLOCKSIZE == 4096
NL == 10          \* '\n'
CH == 65          \* any byte that is not a newline

\* Bounds of the buffer model.
MaxBufOps == 3    \* operations per run
MaxStr == 1       \* length of the short strings appended
MaxLongs == 1     \* appends of a block-sized string per run

\* The inner while loop of append (lines 58-64): starting at j = i, j is
\* incremented while j < newdatasize and j - i <= BUFFER_BLOCKSIZE, and the
\* loop is left right after a newline.  Offsets are the code's (0-based).
BlockEnd(newdata, i) ==
  LET n == Len(newdata)
      stops == {j \in (i + 1)..Min(n, i + BUFFER_BLOCKSIZE + 1) :
                  \/ newdata[j] = NL
                  \/ ~(j < n /\ j - i <= BUFFER_BLOCKSIZE)}
  IN  IF i < n THEN CHOOSE j \in stops : \A k \in stops : j <= k ELSE i

\* The outer loop of append: every block is pushed to the front of the deque.
RECURSIVE AppendLoop(_, _, _)
AppendLoop(d, newdata, i) ==
  IF i < Len(newdata)
  THEN LET j == BlockEnd(newdata, i)
       IN  IF i # j
           THEN AppendLoop(<<SubSeq(newdata, i + 1, j)>> \o d, newdata, j)
           ELSE d
  ELSE d

\* Mutant of append: the blocks are pushed to the back of the deque.
RECURSIVE AppendLoopBack(_, _, _)
AppendLoopBack(d, newdata, i) ==
  IF i < Len(newdata)
  THEN LET j == BlockEnd(newdata, i)
       IN  AppendLoopBack(d \o <<SubSeq(newdata, i + 1, j)>>, newdata, j)
  ELSE d

BufferAppendPushBack(d, newdata) == AppendLoopBack(d, newdata, 0)

BufferAppend(d, newdata) == AppendLoop(d, newdata, 0)

\* available(count): the loop over the deque returns true as soon as the
\* running sum reaches count; an empty deque gives false, also for count 0.
RECURSIVE AvailableLoop(_, _, _, _)
AvailableLoop(d, idx, i, count) ==
  IF idx > Len(d) THEN FALSE
  ELSE IF i + Len(d[idx]) >= count THEN TRUE
  ELSE AvailableLoop(d, idx + 1, i + Len(d[idx]), count)

BufferAvailable(d, count) == AvailableLoop(d, 1, 0, count)

\* The reverse loop of remove, from back() towards front(): [d, ret].
RECURSIVE RemoveLoop(_, _, _, _, _)
RemoveLoop(d, idx, i, ret, count) ==
  IF idx < 1 THEN [d |-> d, ret |-> ret]
  ELSE IF i + Len(d[idx]) < count
  THEN RemoveLoop([d EXCEPT ![idx] = <<>>], idx - 1, i + Len(d[idx]),
                  ret \o d[idx], count)
  ELSE [d   |-> [d EXCEPT ![idx] = SubSeq(d[idx], count - i + 1, Len(d[idx]))],
        ret |-> ret \o SubSeq(d[idx], 1, count - i)]

BufferRemove(d, count) ==
  IF ~BufferAvailable(d, count) THEN [d |-> d, ret |-> <<>>]
  ELSE RemoveLoop(d, Len(d), 0, <<>>, count)

\* The queued bytes, oldest first: the blocks from back() to front().
RECURSIVE Flatten(_)
Flatten(d) == IF d = <<>> THEN <<>> ELSE Flatten(Tail(d)) \o Head(d)

ShortStrings == SeqsUpTo({NL, CH}, MaxStr)
\* Strings around the block size, ending in a newline so that the order of
\* the bytes shows, one of them with a newline inside.
LongString(n) == [k \in 1..n |-> IF k = n THEN NL ELSE CH]
LongStrings ==
  {LongString(BUFFER_BLOCKSIZE + 2),
   [LongString(BUFFER_BLOCKSIZE + 1) EXCEPT ![2] = NL]}
\* Counts up to more than a few short strings hold, and one past a block.
RemoveCounts == (0..(MaxStr + 2)) \cup {BUFFER_BLOCKSIZE + 1}

(***************************************************************************)
(* DTSC::livePos and DTSC::Stream (lib/dtsc.h).  The header declares the   *)
(* Stream's state and operations; their behaviour is the one described in  *)
(* section 4.1 of the specification.                                       *)
(***************************************************************************)
Tracks == {1, 2}
Readers == {1}

\* Bounds of the stream model.
MaxTime == 2          \* packet timestamps are 1..MaxTime
MaxAdds == 3          \* addPacket calls per run, writer alone
MaxBufferCount == 2   \* buffercount is 1..MaxBufferCount
MaxRingAdds == 3      \* addPacket calls per run, with a reader
MaxRingTime == 1      \* packet timestamps of the runs with a reader
MaxConcAdds == 2      \* addPacket calls per run, done step by step

LivePos(t, k) == [seekTime |-> t, trackID |-> k]

\* Mutant of operator <: the track is compared with <=.
LivePosLessOrEqualTrack(a, b) ==
  IF a.seekTime < b.seekTime THEN TRUE
  ELSE IF a.seekTime = b.seekTime
       THEN (IF a.trackID <= b.trackID THEN TRUE ELSE FALSE)
       ELSE FALSE

\* seekPos::operator <
SeekPosLess(a, b) ==
  IF a.seekTime < b.seekTime THEN TRUE
  ELSE IF a.seekTime = b.seekTime
       THEN (IF a.bytePos < b.bytePos THEN TRUE
             ELSE (IF a.trackID < b.trackID THEN TRUE ELSE FALSE))
       ELSE FALSE

\* livePos::operator <
LivePosLess(a, b) ==
  IF a.seekTime < b.seekTime THEN TRUE
  ELSE IF a.seekTime = b.seekTime
       THEN (IF a.trackID < b.trackID THEN TRUE ELSE FALSE)
       ELSE FALSE

\* Two keys are the same key of a std::map or std::set when neither is
\* less than the other.
LivePosEquiv(a, b) == ~LivePosLess(a, b) /\ ~LivePosLess(b, a)

\* The least and the greatest of a non-empty set of positions.
MinPos(S) == CHOOSE x \in S : \A y \in S \ {x} : LivePosLess(x, y)
MaxPos(S) == CHOOSE x \in S : \A y \in S \ {x} : LivePosLess(y, x)

Positions(b) == {e.pos : e \in b}
AllKeyframes(k) == UNION {k[t] : t \in Tracks}
HasVideo(kinds) == \E t \in Tracks : kinds[t] = "video"

\* A packet as handed to addPacket, and as stored under its position.
Packet(t, k, kind, key) == [time |-> t, track |-> k, kind |-> kind, key |-> key]
Entry(lp, p) == [pos |-> lp, time |-> p.time, kind |-> p.kind, key |-> p.key]

\* Step 1 of addPacket: the timestamp is incremented until no stored packet
\* has the position.
RECURSIVE UniquePos(_, _)
UniquePos(b, lp) ==
  IF \E e \in b : LivePosEquiv(e.pos, lp)
  THEN UniquePos(b, [lp EXCEPT !.seekTime = @ + 1])
  ELSE lp

\* buffers[lp] = p: a stored packet with this key is replaced.
MapAssign(b, lp, p) == {e \in b : ~LivePosEquiv(e.pos, lp)} \cup {Entry(lp, p)}

\* Mutant of steps 1 to 3: a keyframe is indexed under the position the
\* packet came with, not under the one it is stored at.
InsertPacketIndexUnbumped(b, k, p) ==
  LET lp == UniquePos(b, LivePos(p.time, p.track))
  IN  [b  |-> MapAssign(b, lp, p),
       k  |-> IF p.kind = "video" /\ p.key
              THEN [k EXCEPT ![p.track] = @ \cup {LivePos(p.time, p.track)}]
              ELSE k,
       lp |-> lp]

\* Steps 1 to 3 of addPacket: [b, k, lp].
InsertPacket(b, k, p) ==
  LET lp == UniquePos(b, LivePos(p.time, p.track))
  IN  [b  |-> MapAssign(b, lp, p),
       k  |-> IF p.kind = "video" /\ p.key
              THEN [k EXCEPT ![p.track] = @ \cup {lp}]
              ELSE k,
       lp |-> lp]

\* Mutant of the condition: buffercount packets are enough to evict.
RetentionHoldsAtCount(b, k, count, kinds) ==
  /\ Cardinality(b) >= count
  /\ HasVideo(kinds) => Cardinality(AllKeyframes(k)) > 1

\* The condition of the eviction loop of addPacket.
RetentionHolds(b, k, count, kinds) ==
  /\ Cardinality(b) > count
  /\ HasVideo(kinds) => Cardinality(AllKeyframes(k)) > 1

\* Mutant of deletionCallback: every Ring is set to the new head.
DeletionCallbackAll(r, newHead) ==
  [x \in Readers |->
     IF r[x].live
     THEN [r[x] EXCEPT !.pos = newHead, !.updated = TRUE]
     ELSE r[x]]

\* deletionCallback: a Ring that points into the evicted range (before
\* newHead) is advanced to the new head and marked updated.
DeletionCallback(r, newHead) ==
  [x \in Readers |->
     IF r[x].live /\ LivePosLess(r[x].pos, newHead)
     THEN [r[x] EXCEPT !.pos = newHead, !.updated = TRUE]
     ELSE r[x]]

\* cutOneBuffer: with a video track, the oldest keyframe and its tail go:
\* every packet before the next keyframe is dropped; without one, the
\* single oldest packet is dropped.  [b, k, r, h], h being the new head.
CutOneBuffer(b, k, r, kinds) ==
  LET head == MinPos(Positions(b)) IN
  IF HasVideo(kinds)
  THEN LET target == MinPos({x \in AllKeyframes(k) : LivePosLess(head, x)})
       IN  [b |-> {e \in b : ~LivePosLess(e.pos, target)},
            k |-> [t \in Tracks |-> {x \in k[t] : ~LivePosLess(x, target)}],
            r |-> DeletionCallback(r, target),
            h |-> target]
  ELSE LET rest == {e \in b : e.pos # head}
       IN  [b |-> rest,
            k |-> [t \in Tracks |-> k[t] \ {head}],
            r |-> IF rest = {} THEN r
                  ELSE DeletionCallback(r, MinPos(Positions(rest))),
            h |-> IF rest = {} THEN head ELSE MinPos(Positions(rest))]

\* Step 4 of addPacket: cutOneBuffer while the condition holds.
\* [b, k, r, cuts], cuts counting the calls.
RECURSIVE EvictLoop(_, _, _)
EvictLoop(s, count, kinds) ==
  IF RetentionHolds(s.b, s.k, count, kinds)
  THEN LET c == CutOneBuffer(s.b, s.k, s.r, kinds)
       IN  EvictLoop([b |-> c.b, k |-> c.k, r |-> c.r, cuts |-> s.cuts + 1],
                     count, kinds)
  ELSE s

\* addPacket as a whole: [b, k, r, cuts, lp, mid], mid being the packets
\* stored right after the insertion.
AddPacket(b, k, r, count, kinds, p) ==
  LET ins == InsertPacket(b, k, p)
      out == EvictLoop([b |-> ins.b, k |-> ins.k, r |-> r, cuts |-> 0],
                       count, kinds)
  IN  [b |-> out.b, k |-> out.k, r |-> out.r, cuts |-> out.cuts,
       lp |-> ins.lp, mid |-> ins.b]

\* The positions a reader restricted to the tracks in allowed can go to
\* from pos.
NextPositions(b, pos, allowed) ==
  {x \in Positions(b) : x.trackID \in allowed /\ LivePosLess(pos, x)}

\* Mutant of getNext: the newest position of an allowed track is returned.
GetNextNewest(b, pos, allowed) ==
  IF NextPositions(b, pos, allowed) = {} THEN pos
  ELSE MaxPos(NextPositions(b, pos, allowed))

\* getNext: the next stored position of an allowed track, or pos itself
\* when there is none.
GetNext(b, pos, allowed) ==
  IF NextPositions(b, pos, allowed) = {} THEN pos
  ELSE MinPos(NextPositions(b, pos, allowed))

\* The position getRing starts a reader at: the newest keyframe, or the
\* newest packet when there is no keyframe.
RingStart(b, k) ==
  IF AllKeyframes(k) # {} THEN MaxPos(AllKeyframes(k)) ELSE MaxPos(Positions(b))

NoRing == [live |-> FALSE, pos |-> LivePos(0, 0), waiting |-> FALSE,
           starved |-> FALSE, updated |-> FALSE, allowed |-> {}]

\* The packets addPacket can be given: on a video track video packets,
\* keyframes or not, on an audio track audio packets.
PacketInputs(kinds, maxTime) ==
  {q \in {Packet(t, k, kinds[k], key) :
            t \in 1..maxTime, k \in Tracks, key \in BOOLEAN} :
     q.kind = "audio" => ~q.key}

\* The metadata a stream can have: video and audio, audio only, video only.
TrackKinds ==
  {[t \in Tracks |-> IF t = 1 THEN "video" ELSE "audio"],
   [t \in Tracks |-> "audio"],
   [t \in Tracks |-> "video"]}

\* The packets of end-to-end scenario 3, in the order they are fed.
ScenarioFeed ==
  <<Packet(100, 1, "video", TRUE),  Packet(120, 2, "audio", FALSE),
    Packet(140, 1, "video", FALSE), Packet(200, 1, "video", TRUE),
    Packet(220, 2, "audio", FALSE), Packet(240, 1, "video", FALSE)>>

\* The packets a scenario run can feed as its n-th packet: any kind of
\* packet with the n-th timestamp of the scenario.
ScenarioInputs(n) ==
  {Packet(ScenarioFeed[n].time, 1, "video", TRUE),
   Packet(ScenarioFeed[n].time, 1, "video", FALSE),
   Packet(ScenarioFeed[n].time, 2, "audio", FALSE)}

\* What is recorded of the last Stream operation: the operation, the reader
\* that did it (0: the writer), the position stored or returned, the
\* position given, the number of cutOneBuffer calls, the number of packets
\* before the call and right after the insertion, the Rings before the
\* call, and for a getNext whether packets came in while the reader was
\* caught up, which ones, and where the reader was.
LastOp(op, reader, pos, from, cuts, pre, mid, r, due, news, cursor) ==
  [op |-> op, reader |-> reader, pos |-> pos, from |-> from, cuts |-> cuts,
   pre |-> pre, mid |-> mid,
   rlive |-> [x \in Readers |-> r[x].live],
   rprev |-> [x \in Readers |-> r[x].pos],
   due |-> due, news |-> news, cursor |-> cursor]

NoLast ==
  LastOp("init", 0, LivePos(0, 0), LivePos(0, 0), 0, 0, 0,
         [x \in Readers |-> NoRing], FALSE, {}, LivePos(0, 0))

\* The writer's locals outside addPacket, and a snapshot of the Stream.
NoReg == [p |-> Packet(0, 0, "audio", FALSE), lp |-> LivePos(0, 0),
          h |-> LivePos(0, 0)]
Snapshot(b, k, r) == [b |-> b, k |-> k, r |-> r]

\* Mutant of the serialisation: a reader does not wait for the writer.
ReaderMayObserveAlways == TRUE

\* The serialisation of section 5: a reader observes the Stream only while
\* the writer is not inside addPacket.
ReaderMayObserve == wPc = "idle"

NoWait == [armed |-> FALSE, cursor |-> LivePos(0, 0), news |-> {}]

\* A packet stored at lp while reader x is caught up, on a track x reads and
\* behind x's cursor, is news for x.
NoteNews(w, r, lp) ==
  [x \in Readers |->
     IF w[x].armed /\ lp.trackID \in r[x].allowed /\ LivePosLess(w[x].cursor, lp)
     THEN [w[x] EXCEPT !.news = @ \cup {lp}]
     ELSE w[x]]

(***************************************************************************)
(* FLV::Tag::MemLoader (lib/flv_tag.cpp).  A byte is a number in 0..255;   *)
(* data is a char *, so the value of a byte of data in an expression       *)
(* depends on whether char is signed.                                      *)
(***************************************************************************)
\* Bounds of the loader model.
MaxTags == 2          \* headers and tags per byte stream
MaxChunk == 2         \* bytes per buffer D, unless D is the rest of the stream
MaxPayload == 2       \* payload bytes of the tags converted
MaxPiece == 2         \* bytes per piece appended to the HTTP input buffer
MaxParts == 3         \* parts in conn.Received() when a piece is appended
MaxUrlLen == 2
MaxSockOps == 3   \* operations on a Connection per run
MaxSockLen == 2   \* bytes given to one iwrite or asked of one iread
MaxRespOps == 4   \* calls on the Parser that answers, per run
MaxSeekTime == 1  \* seekTime of the seek positions compared
MaxBytePos == 1   \* bytePos of the seek positions compared
MaxSeekTrack == 2 \* trackID of the seek positions compared
MaxSendOps == 2   \* calls on the Connection with a send buffer, per run
MaxKeys == 2      \* keys of a track of the metadata given to the converter
MaxKeyParts == 2  \* parts of a key of that metadata
MaxExtra == 1     \* media parts given to parseDTSC beyond those of the keys
BigSize == 268435456  \* bytes of the long buffer given to Chunkify

\* The value of a char holding byte b.
CharValue(b, signed) == IF signed /\ b >= 128 THEN b - 256 ELSE b

\* The buffer data is kept as the bytes written to it so far, buf being its
\* allocated size: the bytes beyond are not initialized, and are written
\* before they are read.  data is the null pointer exactly while buf is 0.

\* buffer with the bytes of src written from index at on (memcpy).
MemCpy(buffer, at, src) ==
  [i \in 1..(IF at + Len(src) > Len(buffer) THEN at + Len(src) ELSE Len(buffer)) |->
     IF i > at /\ i <= at + Len(src) THEN src[i - at] ELSE buffer[i]]

\* FLV::check_header
check_header(header) ==
  IF header[1] # 70 THEN FALSE
  ELSE IF header[2] # 76 THEN FALSE
  ELSE IF header[3] # 86 THEN FALSE
  ELSE IF header[6] # 0 THEN FALSE
  ELSE IF header[7] # 0 THEN FALSE
  ELSE IF header[8] # 0 THEN FALSE
  ELSE IF header[9] # 9 THEN FALSE
  ELSE IF header[10] # 0 THEN FALSE
  ELSE IF header[11] # 0 THEN FALSE
  ELSE IF header[12] # 0 THEN FALSE
  ELSE IF header[13] # 0 THEN FALSE
  ELSE TRUE

\* FLV::is_header
is_header(header) ==
  IF header[1] # 70 THEN FALSE
  ELSE IF header[2] # 76 THEN FALSE
  ELSE IF header[3] # 86 THEN FALSE
  ELSE TRUE

\* Tag::MemReadUntil: [buffer, sofar, P, ret].
MemReadUntil(buffer, count, sf, D, S, P) ==
  IF sf >= count
  THEN [buffer |-> buffer, sofar |-> sf, P |-> P, ret |-> TRUE]
  ELSE LET r == IF P + (count - sf) > S THEN S - P ELSE count - sf
       IN  [buffer |-> MemCpy(buffer, sf, SubSeq(D, P + 1, P + r)),
            sofar  |-> sf + r,
            P      |-> P + r,
            ret    |-> (sf + r >= count)]

\* Tag::checkBufferSize: [t, ret]; ok tells whether realloc succeeds when it
\* is called.
checkBufferSize(t, ok) ==
  IF t.buf < t.len \/ t.buf = 0
  THEN IF ok
       THEN [t |-> [t EXCEPT !.buf = t.len], ret |-> TRUE]
       ELSE [t |-> [t EXCEPT !.len = t.buf], ret |-> FALSE]
  ELSE [t |-> t, ret |-> TRUE]

\* len as MemLoader computes it from the tag header in d.
HeaderLen(d, signed) ==
  CharValue(d[4], signed) + 15 + CharValue(d[3], signed) * 256
    + CharValue(d[2], signed) * 65536

\* What a MemLoader call leaves: the Tag, Parse_Error, Header, P, and the
\* value returned.
LoaderOut(t, pe, hd, P, ret) ==
  [t |-> t, Parse_Error |-> pe, Header |-> hd, P |-> P, ret |-> ret]

\* The branch of MemLoader that has read the 11 bytes of a tag header.
LoaderTagHeader(t, pe, hd, P, signed, ok) ==
  LET c == checkBufferSize([t EXCEPT !.len = HeaderLen(t.data, signed)], ok)
  IN  IF ~c.ret THEN LoaderOut(c.t, pe, hd, P, FALSE)
      ELSE IF CharValue(c.t.data[1], signed) > 18
      THEN LoaderOut([c.t EXCEPT !.data[1] = (@ + 32) % 256], TRUE, hd, P, FALSE)
      ELSE LoaderOut([c.t EXCEPT !.done = FALSE], pe, hd, P, FALSE)

\* Mutant of the branch: sofar is not reset after a valid container header.
LoaderFlvHeaderKeepSofar(t, pe, hd, D, S, P) ==
  LET r == MemReadUntil(t.data, 13, t.sofar, D, S, P)
      u == [t EXCEPT !.data = r.buffer, !.sofar = r.sofar]
  IN  IF ~r.ret THEN LoaderOut(u, pe, hd, r.P, FALSE)
      ELSE IF check_header(u.data)
      THEN LoaderOut(u, pe, SubSeq(u.data, 1, 13), r.P, FALSE)
      ELSE LoaderOut(u, TRUE, hd, r.P, FALSE)

\* The branch of MemLoader that has read "FLV": a container header.
LoaderFlvHeader(t, pe, hd, D, S, P) ==
  LET r == MemReadUntil(t.data, 13, t.sofar, D, S, P)
      u == [t EXCEPT !.data = r.buffer, !.sofar = r.sofar]
  IN  IF ~r.ret THEN LoaderOut(u, pe, hd, r.P, FALSE)
      ELSE IF check_header(u.data)
      THEN LoaderOut([u EXCEPT !.sofar = 0], pe, SubSeq(u.data, 1, 13), r.P, FALSE)
      ELSE LoaderOut(u, TRUE, hd, r.P, FALSE)

\* The branch of MemLoader that reads the tag body.
LoaderBody(t, pe, hd, D, S, P) ==
  LET r == MemReadUntil(t.data, t.len, t.sofar, D, S, P)
      u == [t EXCEPT !.data = r.buffer, !.sofar = r.sofar]
  IN  IF r.ret
      THEN LoaderOut([u EXCEPT !.isKeyframe = (u.data[1] = 9 /\ u.data[12] \div 16 = 1),
                               !.done = TRUE, !.sofar = 0],
                     pe, hd, r.P, TRUE)
      ELSE LoaderOut(u, pe, hd, r.P, FALSE)

\* Tag::MemLoader(D, S, P); ok1 and ok2 tell whether the two calls of
\* checkBufferSize get memory.
MemLoader(t0, pe, hd, D, S, P, signed, ok1, ok2) ==
  LET c == checkBufferSize(IF t0.len < 15 THEN [t0 EXCEPT !.len = 15] ELSE t0, ok1)
      t == c.t
  IN  IF ~c.ret THEN LoaderOut(t, pe, hd, P, FALSE)
      ELSE IF t.done
      THEN LET r == MemReadUntil(t.data, 11, t.sofar, D, S, P)
               u == [t EXCEPT !.data = r.buffer, !.sofar = r.sofar]
           IN  IF ~r.ret THEN LoaderOut(u, pe, hd, r.P, FALSE)
               ELSE IF is_header(u.data)
               THEN LoaderFlvHeader(u, pe, hd, D, S, r.P)
               ELSE LoaderTagHeader(u, pe, hd, r.P, signed, ok2)
      ELSE LoaderBody(t, pe, hd, D, S, P)

\* Tag::Tag()
NewTag == [data |-> <<>>, len |-> 0, buf |-> 0, sofar |-> 0, done |-> TRUE,
           isKeyframe |-> FALSE]

\* The default of FLV::Header.
DefaultHeader == <<70, 76, 86, 1, 5, 0, 0, 0, 9, 0, 0, 0, 0>>

\* The bytes of a tag: type, 24-bit payload length, timestamp, stream id,
\* payload, previous-tag-size.
TagBytes(type, payload) ==
  <<type, 0, Len(payload) \div 256, Len(payload) % 256, 0, 0, 7, 0, 0, 0, 0>>
    \o payload \o <<0, 0, 0, (Len(payload) + 11) % 256>>

\* What a byte stream is made of: a container header (of an audio-only
\* file, so that it differs from the default), a container header with a
\* wrong DataOffset, a video keyframe, an audio tag without payload, and a
\* tag of a type that does not exist.
FlvItems ==
  {<<70, 76, 86, 1, 4, 0, 0, 0, 9, 0, 0, 0, 0>>,
   <<70, 76, 86, 1, 5, 0, 0, 0, 8, 0, 0, 0, 0>>,
   TagBytes(9, <<23>>),
   TagBytes(8, <<>>),
   TagBytes(32, <<>>)}

\* A video tag whose payload length has the high bit of its low byte set.
FlvLongTag == TagBytes(9, [i \in 1..128 |-> IF i = 1 THEN 39 ELSE i])

RECURSIVE Concat(_)
Concat(ss) == IF ss = <<>> THEN <<>> ELSE Head(ss) \o Concat(Tail(ss))

\* The byte streams fed: up to MaxTags items, or the long tag, alone or
\* next to an item.
FlvStreams ==
  {Concat(ss) : ss \in SeqsUpTo(FlvItems, MaxTags) \ {<<>>}}
    \cup {FlvLongTag}
    \cup {FlvLongTag \o x : x \in FlvItems}
    \cup {x \o FlvLongTag : x \in FlvItems}

\* What is recorded of the last MemLoader call: the value returned, where
\* in the stream the tag it worked on starts, and how many bytes of the
\* stream have been consumed from there.
NoLoad == [ret |-> FALSE, start |-> 0, used |-> 0]

(***************************************************************************)
(* Initial states.                                                         *)
(***************************************************************************)
BufInit ==
  /\ data = <<>>
  /\ bufRet = <<>>
  /\ bufOp = "init"
  /\ bufArg = <<>>
  /\ bufPre = <<>>
  /\ bufOps = 0
  /\ bufLongs = 0

\* A Stream that is not used: the state of the other specifications.
StreamIdle ==
  /\ buffers = {}
  /\ keyframes = [t \in Tracks |-> {}]
  /\ buffercount = 1
  /\ buffertime = 0
  /\ trackKind = [t \in Tracks |-> "audio"]
  /\ rings = [x \in Readers |-> NoRing]
  /\ sLast = NoLast
  /\ sAdds = 0
  /\ sMaxAdds = 0
  /\ sFeed = <<>>
  /\ sWait = [x \in Readers |-> NoWait]

\* Stream(buffers, bufferTime) with the metadata of a header packet.
StreamInit ==
  /\ buffers = {}
  /\ keyframes = [t \in Tracks |-> {}]
  /\ buffercount \in 1..MaxBufferCount
  /\ buffertime \in {0, MaxTime}
  /\ trackKind \in TrackKinds
  /\ rings = [x \in Readers |-> NoRing]
  /\ sLast = NoLast
  /\ sAdds = 0
  /\ sMaxAdds = MaxAdds
  /\ sFeed = <<>>
  /\ sWait = [x \in Readers |-> NoWait]

\* The same Stream, for the runs with a reader.
RingInit ==
  /\ buffers = {}
  /\ keyframes = [t \in Tracks |-> {}]
  /\ buffercount \in 1..MaxBufferCount
  /\ buffertime = 0
  /\ trackKind \in TrackKinds
  /\ rings = [x \in Readers |-> NoRing]
  /\ sLast = NoLast
  /\ sAdds = 0
  /\ sMaxAdds = MaxRingAdds
  /\ sFeed = <<>>
  /\ sWait = [x \in Readers |-> NoWait]

\* The Stream of end-to-end scenario 3: one video and one audio track, no
\* buffer time, a buffer count of 4 or less.
ScenarioInit ==
  /\ buffers = {}
  /\ keyframes = [t \in Tracks |-> {}]
  /\ buffercount \in {2, 3, 4}
  /\ buffertime = 0
  /\ trackKind = [t \in Tracks |-> IF t = 1 THEN "video" ELSE "audio"]
  /\ rings = [x \in Readers |-> NoRing]
  /\ sLast = NoLast
  /\ sAdds = 0
  /\ sMaxAdds = Len(ScenarioFeed)
  /\ sFeed = <<>>
  /\ sWait = [x \in Readers |-> NoWait]

\* A writer outside addPacket, with the snapshots of a Stream in state
\* [b, k, r].
ConcIdle ==
  /\ wPc = "idle"
  /\ wReg = NoReg
  /\ wSnap = [pre  |-> Snapshot(buffers, keyframes, rings),
              post |-> Snapshot(buffers, keyframes, rings)]

\* The same Stream, for the runs in which addPacket is done step by step.
ConcInit ==
  /\ buffers = {}
  /\ keyframes = [t \in Tracks |-> {}]
  /\ buffercount \in 1..MaxBufferCount
  /\ buffertime = 0
  /\ trackKind \in TrackKinds
  /\ rings = [x \in Readers |-> NoRing]
  /\ sLast = NoLast
  /\ sAdds = 0
  /\ sMaxAdds = MaxConcAdds
  /\ sFeed = <<>>
  /\ sWait = [x \in Readers |-> NoWait]

(***************************************************************************)
(* FLV::Tag::tagTime (flv_tag.cpp).  An unsigned int is 32 bits wide; it   *)
(* is kept here as two 16-bit halves [hi, lo], its value being             *)
(* hi * 65536 + lo, so that no intermediate value leaves the range of the  *)
(* model checker's integers.                                               *)
(***************************************************************************)
NoWord == [hi |-> 0 - 1, lo |-> 0 - 1]

\* void tagTime(unsigned int T): data[4] = (T >> 16) & 0xFF,
\* data[5] = (T >> 8) & 0xFF, data[6] = T & 0xFF, data[7] = (T >> 24) & 0xFF.
tagTimeSet(d, T) ==
  [d EXCEPT ![5] = T.hi % 256,
            ![6] = T.lo \div 256,
            ![7] = T.lo % 256,
            ![8] = T.hi \div 256]

\* unsigned int tagTime():
\*   return (data[4] << 16) + (data[5] << 8) + data[6] + (data[7] << 24);
\* data is char*: every byte is promoted to int with the sign char has in
\* this build, the sum is formed in int and converted to unsigned int, that
\* is, taken modulo 2^32.  low is (data[5] << 8) + data[6], it carries into
\* the upper half.
tagTimeGet(d, signed) ==
  LET v(i) == CharValue(d[i], signed)
      low  == v(6) * 256 + v(7)
      high == v(5) + v(8) * 256 + (low \div 65536)
  IN  [hi |-> high % 65536, lo |-> low % 65536]

(***************************************************************************)
(* JSON::Value objects, as far as toJSON and DTSCLoader use them: an       *)
(* object is a function from its member names to their values, the null    *)
(* value is the object without members.                                    *)
(***************************************************************************)
JNull == [x \in {} |-> 0]

isMember(o, k) == k \in DOMAIN o

JSet(o, k, v) == [x \in DOMAIN o \cup {k} |-> IF x = k THEN v ELSE o[x]]

\* metadata["tracks"] without members.
NoMeta == [track1 |-> JNull, track2 |-> JNull]

\* b & 0xF0 and b & 0x0F: the low eight bits of a promoted char do not
\* depend on its sign.
HiNibble(b) == (b \div 16) * 16

LoNibble(b) == b % 16

\* std::string((char*)data + from, n)
Bytes(d, from, n) == SubSeq(d, from + 1, from + n)

needsInitData(d) ==
  IF d[1] = 9 THEN LoNibble(d[12]) \in {2, 7}
  ELSE IF d[1] = 8 THEN HiNibble(d[12]) = 160
  ELSE FALSE

isInitData(d) ==
  IF d[1] = 9
  THEN HiNibble(d[12]) = 80 \/ (LoNibble(d[12]) = 7 /\ d[13] = 0)
  ELSE IF d[1] = 8 THEN d[13] = 0 /\ HiNibble(d[12]) = 160
  ELSE FALSE

getVideoCodec(d) ==
  CASE LoNibble(d[12]) = 1 -> "JPEG"
    [] LoNibble(d[12]) = 2 -> "H263"
    [] LoNibble(d[12]) = 3 -> "ScreenVideo1"
    [] LoNibble(d[12]) = 4 -> "VP6"
    [] LoNibble(d[12]) = 5 -> "VP6Alpha"
    [] LoNibble(d[12]) = 6 -> "ScreenVideo2"
    [] LoNibble(d[12]) = 7 -> "H264"
    [] OTHER -> "unknown"

getAudioCodec(d) ==
  CASE HiNibble(d[12]) = 0 -> "linear PCM PE"
    [] HiNibble(d[12]) = 16 -> "ADPCM"
    [] HiNibble(d[12]) = 32 -> "MP3"
    [] HiNibble(d[12]) = 48 -> "linear PCM LE"
    [] HiNibble(d[12]) = 64 -> "Nelly16kHz"
    [] HiNibble(d[12]) = 80 -> "Nelly8kHz"
    [] HiNibble(d[12]) = 96 -> "Nelly"
    [] HiNibble(d[12]) = 112 -> "G711A-law"
    [] HiNibble(d[12]) = 128 -> "G711mu-law"
    [] HiNibble(d[12]) = 144 -> "reserved"
    [] HiNibble(d[12]) = 160 -> "AAC"
    [] HiNibble(d[12]) = 176 -> "Speex"
    [] HiNibble(d[12]) = 224 -> "MP38kHz"
    [] HiNibble(d[12]) = 240 -> "DeviceSpecific"
    [] OTHER -> "unknown"

\* !track.isMember("codec") || codec == "?" || codec == ""
CodecMissing(tr) ==
  ~isMember(tr, "codec") \/ tr["codec"] = "?" \/ tr["codec"] = ""

\* !track.isMember(k) || track[k].asInt() < 1
IntMissing(tr, k) == ~isMember(tr, k) \/ tr[k] < 1

\* int offset = (data[13] << 16) + (data[14] << 8) + data[15];
\* offset = (offset << 8) >> 8: the low 24 bits, sign-extended.
CompositionOffset(d, signed) ==
  LET raw == CharValue(d[14], signed) * 65536 + CharValue(d[15], signed) * 256
               + CharValue(d[16], signed)
      low == raw % 16777216
  IN  IF low >= 8388608 THEN low - 16777216 ELSE low

\* The audio branch of toJSON after the init-data test.
toJSONAudio(d, len, metadata, signed) ==
  LET audiodata == d[12]
      p == [datatype |-> "audio", time |-> tagTimeGet(d, signed), trackid |-> 2]
      m1 == JSet(JSet(metadata.track2, "trackid", 2), "type", "audio")
      m2 == IF CodecMissing(m1) THEN JSet(m1, "codec", getAudioCodec(d)) ELSE m1
      m3 == IF IntMissing(m2, "rate")
            THEN JSet(m2, "rate", CASE (audiodata \div 4) % 4 = 0 -> 5512
                                    [] (audiodata \div 4) % 4 = 1 -> 11025
                                    [] (audiodata \div 4) % 4 = 2 -> 22050
                                    [] OTHER -> 44100)
            ELSE m2
      m4 == IF IntMissing(m3, "size")
            THEN JSet(m3, "size", IF (audiodata \div 2) % 2 = 0 THEN 8 ELSE 16)
            ELSE m3
      m5 == IF IntMissing(m4, "channels")
            THEN JSet(m4, "channels", IF audiodata % 2 = 0 THEN 1 ELSE 2)
            ELSE m4
      md == [metadata EXCEPT !.track2 = m5]
  IN  IF HiNibble(audiodata) = 160
      THEN IF len < 18 THEN [pack |-> JNull, metadata |-> md]
           ELSE [pack |-> JSet(p, "data", Bytes(d, 13, len - 17)), metadata |-> md]
      ELSE IF len < 17 THEN [pack |-> JNull, metadata |-> md]
           ELSE [pack |-> JSet(p, "data", Bytes(d, 12, len - 16)), metadata |-> md]

\* The video branch of toJSON after the init-data test.
toJSONVideo(d, len, metadata, signed) ==
  LET videodata == d[12]
      m1 == IF CodecMissing(metadata.track1)
            THEN JSet(metadata.track1, "codec", getVideoCodec(d))
            ELSE metadata.track1
      md == [metadata EXCEPT !.track1 = m1]
      p1 == [datatype |-> "video", trackid |-> 1]
      p2 == CASE HiNibble(videodata) = 16 -> JSet(p1, "keyframe", 1)
              [] HiNibble(videodata) = 32 -> JSet(p1, "interframe", 1)
              [] HiNibble(videodata) = 48 -> JSet(p1, "disposableframe", 1)
              [] HiNibble(videodata) = 64 -> JSet(p1, "keyframe", 1)
              [] OTHER -> p1
      p3 == JSet(p2, "time", tagTimeGet(d, signed))
      p4 == CASE d[13] = 1 -> JSet(p3, "nalu", 1)
              [] d[13] = 2 -> JSet(p3, "nalu_end", 1)
              [] OTHER -> p3
      p5 == JSet(p4, "offset", CompositionOffset(d, signed))
  IN  IF HiNibble(videodata) = 80 THEN [pack |-> JNull, metadata |-> md]
      ELSE IF LoNibble(videodata) = 7
      THEN IF len < 21 THEN [pack |-> JNull, metadata |-> md]
           ELSE [pack |-> JSet(p5, "data", Bytes(d, 16, len - 20)), metadata |-> md]
      ELSE IF len < 17 THEN [pack |-> JNull, metadata |-> md]
           ELSE [pack |-> JSet(p3, "data", Bytes(d, 12, len - 16)), metadata |-> md]

\* JSON::Value FLV::Tag::toJSON(JSON::Value & metadata), for audio and video
\* tags; the script-data branch needs the AMF parser and is not modelled.
toJSON(t, metadata, signed) ==
  LET d == t.data
      len == t.len
  IN  IF d[1] = 8
      THEN IF needsInitData(d) /\ isInitData(d)
           THEN [pack |-> JNull,
                 metadata |-> [metadata EXCEPT !.track2 =
                    JSet(@, "init", IF HiNibble(d[12]) = 160
                                    THEN Bytes(d, 13, len - 17)
                                    ELSE Bytes(d, 12, len - 16))]]
           ELSE toJSONAudio(d, len, metadata, signed)
      ELSE IF d[1] = 9
      THEN IF needsInitData(d) /\ isInitData(d)
           THEN IF LoNibble(d[12]) = 7
                THEN IF len < 21 THEN [pack |-> JNull, metadata |-> metadata]
                     ELSE [pack |-> JNull,
                           metadata |-> [metadata EXCEPT !.track1 =
                              JSet(@, "init", Bytes(d, 16, len - 20))]]
                ELSE IF len < 17 THEN [pack |-> JNull, metadata |-> metadata]
                     ELSE [pack |-> JNull,
                           metadata |-> [metadata EXCEPT !.track1 =
                              JSet(@, "init", Bytes(d, 12, len - 16))]]
           ELSE toJSONVideo(d, len, metadata, signed)
      ELSE [pack |-> JNull, metadata |-> metadata]

(***************************************************************************)
(* FLV::Tag::DTSCLoader (flv_tag.cpp).  The DTSC::Stream S it reads is     *)
(* [packet, metadata]: S.getPacket() is the packet, S.lastType() its       *)
(* datatype, S.lastData() its data, S.getTrackById(n) the track of the     *)
(* metadata whose trackid is n, or the null value where there is none.     *)
(***************************************************************************)
getTrackById(metadata, trackNo) ==
  IF isMember(metadata.track1, "trackid") /\ metadata.track1["trackid"] = trackNo
  THEN metadata.track1
  ELSE IF isMember(metadata.track2, "trackid") /\ metadata.track2["trackid"] = trackNo
  THEN metadata.track2
  ELSE JNull

\* JSON::Value::asInt() of a member: 0 where the member does not exist.
IntOf(o, k) == IF isMember(o, k) THEN o[k] ELSE 0

\* track.isMember("codec") && track["codec"].asStringRef() == c
CodecIs(track, c) == isMember(track, "codec") /\ track["codec"] = c

\* void setLen(): the last four bytes of the tag hold len - 4, big-endian.
setLen(d, len) ==
  MemCpy(d, len - 4, << ((len - 4) \div 16777216) % 256, ((len - 4) \div 65536) % 256,
                       ((len - 4) \div 256) % 256, (len - 4) % 256 >>)

\* The bytes DTSCLoader writes for a video packet, from data[11] on.
LoaderVideo(d, len, packet, track) ==
  LET lastData == packet["data"]
      offset == IntOf(packet, "offset")
      d1 == IF len = Len(lastData) + 16
            THEN MemCpy(d, 12, lastData)
            ELSE MemCpy(MemCpy(d, 16, lastData), 12,
                        << IF isMember(packet, "nalu") THEN 1 ELSE 2,
                           (offset \div 65536) % 256, (offset \div 256) % 256,
                           offset % 256 >>)
      b == (IF CodecIs(track, "H264") THEN 7 ELSE 0)
           + (IF CodecIs(track, "H263") THEN 2 ELSE 0)
           + (IF isMember(packet, "keyframe") THEN 16 ELSE 0)
           + (IF isMember(packet, "interframe") THEN 32 ELSE 0)
           + (IF isMember(packet, "disposableframe") THEN 48 ELSE 0)
  IN  MemCpy(d1, 11, << b % 256 >>)

\* The bytes DTSCLoader writes for an audio packet, from data[11] on.
LoaderAudio(d, len, packet, track) ==
  LET lastData == packet["data"]
      d1 == IF len = Len(lastData) + 16
            THEN MemCpy(d, 12, lastData)
            ELSE MemCpy(MemCpy(d, 13, lastData), 12, << 1 >>)
      datarate == IntOf(track, "rate")
      b == (IF CodecIs(track, "AAC") THEN 160 ELSE 0)
           + (IF CodecIs(track, "MP3") THEN 32 ELSE 0)
           + (IF datarate >= 44100 THEN 12
              ELSE IF datarate >= 22050 THEN 8
              ELSE IF datarate >= 11025 THEN 4 ELSE 0)
           + (IF IntOf(track, "size") = 16 THEN 2 ELSE 0)
           + (IF IntOf(track, "channels") > 1 THEN 1 ELSE 0)
  IN  MemCpy(d1, 11, << b % 256 >>)

\* bool FLV::Tag::DTSCLoader(DTSC::Stream & S), for video and audio packets;
\* the metadata branch needs the AMF packer and is not modelled.  ok: whether
\* realloc succeeds.  The timestamp is handed to tagTime as an unsigned int.
DTSCLoader(t, S, ok) ==
  LET packet == S.packet
      track == getTrackById(S.metadata, packet["trackid"])
      video == packet["datatype"] = "video"
      n == Len(packet["data"])
      len == IF video
             THEN n + 16 + (IF CodecIs(track, "H264") THEN 4 ELSE 0)
             ELSE n + 16 + (IF CodecIs(track, "AAC") THEN 1 ELSE 0)
      c == checkBufferSize([t EXCEPT !.len = len], ok)
      d1 == IF video THEN LoaderVideo(c.t.data, len, packet, track)
            ELSE LoaderAudio(c.t.data, len, packet, track)
      d2 == setLen(d1, len)
      d3 == MemCpy(d2, 0, << IF video THEN 9 ELSE 8, ((len - 15) \div 65536) % 256,
                             ((len - 15) \div 256) % 256, (len - 15) % 256 >>)
      d4 == MemCpy(d3, 8, <<0, 0, 0>>)
  IN  IF ~c.ret THEN [t |-> c.t, ret |-> FALSE]
      ELSE [t |-> [c.t EXCEPT !.data = tagTimeSet(d4, packet["time"])], ret |-> TRUE]

(***************************************************************************)
(* HTTP::Parser (lib/http_parser.cpp).  A std::string is a sequence of     *)
(* character codes; a std::map<std::string, std::string> is a function     *)
(* from its keys to their values.  Positions are counted from 1: Find      *)
(* gives 0 where std::string::find gives npos.                             *)
(***************************************************************************)
EmptyMap == [x \in {} |-> <<>>]

\* m[k] = v
MapSet(m, k, v) == [x \in DOMAIN m \cup {k} |-> IF x = k THEN v ELSE m[x]]

\* m[k] read: the value, the empty string where there is none.
MapGet(m, k) == IF k \in DOMAIN m THEN m[k] ELSE <<>>

\* m after m[k] was read: std::map::operator[] inserts the key.
MapTouch(m, k) == IF k \in DOMAIN m THEN m ELSE MapSet(m, k, <<>>)

\* s.find(c, pos - 1) + 1
Find(s, c, pos) ==
  LET I == {i \in pos..Len(s) : s[i] = c}
  IN  IF I = {} THEN 0 ELSE CHOOSE i \in I : \A j \in I : i <= j

\* void Trim(std::string & s)
Trim(s) ==
  LET I == {i \in 1..Len(s) : s[i] \notin {32, 9}}
  IN  IF I = {} THEN <<>>
      ELSE SubSeq(s, CHOOSE i \in I : \A j \in I : i <= j,
                     CHOOSE i \in I : \A j \in I : i >= j)

\* int unhex(char c)
unhex(c) ==
  IF c >= 48 /\ c <= 57 THEN c - 48
  ELSE IF c >= 65 /\ c <= 70 THEN c - 65 + 10
  ELSE c - 97 + 10

\* std::string urlunescape(const std::string & in): i is the position read
\* next.  tmp is a char: the sum is kept modulo 256.
RECURSIVE UnescapeFrom(_, _)
UnescapeFrom(in, i) ==
  IF i > Len(in) THEN <<>>
  ELSE IF in[i] = 37
  THEN LET hi == IF i + 1 <= Len(in) THEN (unhex(in[i + 1]) * 16) % 256 ELSE 0
           lo == IF i + 2 <= Len(in) THEN unhex(in[i + 2]) ELSE 0
       IN  <<(hi + lo) % 256>> \o UnescapeFrom(in, i + 3)
  ELSE IF in[i] = 43 THEN <<32>> \o UnescapeFrom(in, i + 1)
  ELSE <<in[i]>> \o UnescapeFrom(in, i + 1)

urlunescape(in) == UnescapeFrom(in, 1)

\* The characters urlencode leaves as they are, with '+' among them.
IsUnreservedOrPlus(b, signed) ==
  LET c == CharValue(b, signed)
  IN  \/ (48 <= c /\ c <= 57) \/ (97 <= c /\ c <= 122) \/ (65 <= c /\ c <= 90)
      \/ c \in {126, 33, 42, 40, 41, 39, 43}

\* The characters urlencode leaves as they are: digits, letters and ~!*()'.
IsUnreserved(b, signed) ==
  LET c == CharValue(b, signed)
  IN  \/ (48 <= c /\ c <= 57) \/ (97 <= c /\ c <= 122) \/ (65 <= c /\ c <= 90)
      \/ c \in {126, 33, 42, 40, 41, 39}

\* One digit of hex(char dec): dig <= 9 gives '0'..'9', and the digit that
\* is then within 10..15 gives 'a'..'f'.
HexDigit(dig) ==
  LET d1 == IF dig <= 9 THEN dig + 48 ELSE dig
  IN  IF 10 <= d1 /\ d1 <= 15 THEN d1 + 97 - 10 ELSE d1

\* std::string hex(char dec): (dec & 0xF0) >> 4 and dec & 0x0F do not
\* depend on the sign of dec.
hex(b) == <<HexDigit(b \div 16), HexDigit(b % 16)>>

\* std::string urlencode(const std::string & c)
RECURSIVE urlencode(_, _)
urlencode(c, signed) ==
  IF c = <<>> THEN <<>>
  ELSE (IF IsUnreserved(c[1], signed) THEN <<c[1]>> ELSE <<37>> \o hex(c[1]))
         \o urlencode(Tail(c), signed)

\* void SetVar(std::string i, std::string v)
SetVar(vs, i, v) ==
  IF Trim(i) # <<>> THEN MapSet(vs, Trim(i), Trim(v)) ELSE vs

\* void SetHeader(std::string i, std::string v)
SetHeader(headers, i, v) == MapSet(headers, Trim(i), Trim(v))

\* void parseVars(std::string data): pos is the position where a part starts.
RECURSIVE ParseVarsFrom(_, _, _)
ParseVarsFrom(vs, str, pos) ==
  IF pos > Len(str) THEN vs
  ELSE LET amp == Find(str, 38, pos)
           nextpos == IF amp = 0 THEN Len(str) + 1 ELSE amp
           eq_pos == Find(str, 61, pos)
           varname == IF eq_pos # 0 /\ eq_pos < nextpos
                      THEN SubSeq(str, pos, eq_pos - 1)
                      ELSE SubSeq(str, pos, nextpos - 1)
           varval == IF eq_pos # 0 /\ eq_pos < nextpos
                     THEN SubSeq(str, eq_pos + 1, nextpos - 1)
                     ELSE <<>>
       IN  ParseVarsFrom(SetVar(vs, urlunescape(varname), urlunescape(varval)),
                         str, nextpos + 1)

parseVars(vs, str) == ParseVarsFrom(vs, str, 1)

\* std::string getUrl()
getUrl(url) ==
  IF Find(url, 63, 1) # 0 THEN SubSeq(url, 1, Find(url, 63, 1) - 1) ELSE url

\* atoi of a header value: the value of its leading decimal digits (the
\* header values of the inputs carry no sign and no leading white space).
RECURSIVE AtoiFrom(_, _, _)
AtoiFrom(s, i, acc) ==
  IF i > Len(s) \/ s[i] < 48 \/ s[i] > 57 THEN acc
  ELSE AtoiFrom(s, i + 1, acc * 10 + (s[i] - 48))

atoi(s) == AtoiFrom(s, 1, 0)

\* while (tmpA.find('\r') != npos) tmpA.erase(tmpA.find('\r')): what is
\* left is the line up to its first carriage return.
StripCR(tmpA) ==
  IF Find(tmpA, 13, 1) = 0 THEN tmpA ELSE SubSeq(tmpA, 1, Find(tmpA, 13, 1) - 1)

\* f = HTTPbuffer.find('\n'); tmpA = HTTPbuffer.substr(0, f), erased from
\* the buffer with its newline and cut at its first carriage return.
TakeLine(HTTPbuffer) ==
  LET f == Find(HTTPbuffer, 10, 1)
  IN  IF f = 0
      THEN [found |-> FALSE, line |-> <<>>, rest |-> HTTPbuffer]
      ELSE [found |-> TRUE, line |-> StripCR(SubSeq(HTTPbuffer, 1, f - 1)),
            rest |-> SubSeq(HTTPbuffer, f + 1, Len(HTTPbuffer))]

\* HTTP::Parser::Parser() and Clean()
NewParser ==
  [headerOnly |-> FALSE, seenHeaders |-> FALSE, seenReq |-> FALSE,
   getChunks |-> FALSE, doingChunk |-> 0, method |-> <<71, 69, 84>>, url |-> <<47>>,
   protocol |-> <<72, 84, 84, 80, 47, 49, 46, 49>>, body |-> <<>>, length |-> 0, headers |-> EmptyMap,
   vars |-> EmptyMap]

\* The first line of a request or response (parse, !seenReq).
RequestLine(p, tmpA) ==
  LET f == Find(tmpA, 32, 1)
      first == SubSeq(tmpA, 1, f - 1)
      tmpB == SubSeq(tmpA, f + 1, Len(tmpA))
      g == Find(tmpB, 32, 1)
      second == SubSeq(tmpB, 1, g - 1)
      third == SubSeq(tmpB, g + 1, Len(tmpB))
      q == Find(second, 63, 1)
      withVars(r) == IF q # 0
                     THEN [r EXCEPT !.vars = parseVars(@, SubSeq(second, q + 1, Len(second)))]
                     ELSE r
  IN  IF f = 0 THEN [p EXCEPT !.seenReq = FALSE]
      ELSE IF SubSeq(tmpA, 1, Min(4, Len(tmpA))) = <<72, 84, 84, 80>>
      THEN IF g = 0 THEN [p EXCEPT !.seenReq = FALSE, !.protocol = first]
           ELSE withVars([p EXCEPT !.seenReq = TRUE, !.protocol = first,
                                   !.url = second, !.method = third])
      ELSE IF g = 0 THEN [p EXCEPT !.seenReq = FALSE, !.method = first]
           ELSE withVars([p EXCEPT !.seenReq = TRUE, !.method = first,
                                   !.url = second, !.protocol = third])

\* The empty line that ends the headers (parse, tmpA.size() == 0).
EndOfHeaders(p) ==
  LET cl == MapGet(p.headers, <<67, 111, 110, 116, 101, 110, 116, 45, 76, 101, 110, 103, 116, 104>>)
      h1 == MapTouch(p.headers, <<67, 111, 110, 116, 101, 110, 116, 45, 76, 101, 110, 103, 116, 104>>)
      te == MapGet(h1, <<84, 114, 97, 110, 115, 102, 101, 114, 45, 69, 110, 99, 111, 100, 105, 110, 103>>)
      h2 == MapTouch(h1, <<84, 114, 97, 110, 115, 102, 101, 114, 45, 69, 110, 99, 111, 100, 105, 110, 103>>)
  IN  [p EXCEPT !.seenHeaders = TRUE, !.body = <<>>, !.headers = h2,
                !.length = IF cl # <<>> THEN atoi(cl) ELSE @,
                !.getChunks = IF te = <<99, 104, 117, 110, 107, 101, 100>> THEN TRUE ELSE @,
                !.doingChunk = IF te = <<99, 104, 117, 110, 107, 101, 100>> THEN 0 ELSE @]

\* A header line (parse, tmpA.find(':')).
HeaderLine(p, tmpA) ==
  LET f == Find(tmpA, 58, 1)
  IN  IF f = 0 THEN p
      ELSE [p EXCEPT !.headers = SetHeader(@, SubSeq(tmpA, 1, f - 1),
                                              SubSeq(tmpA, f + 1, Len(tmpA)))]

\* a | b for natural numbers.
RECURSIVE BitOr(_, _)
BitOr(a, b) ==
  IF a = 0 THEN b
  ELSE IF b = 0 THEN a
  ELSE (IF a % 2 = 1 \/ b % 2 = 1 THEN 1 ELSE 0) + 2 * BitOr(a \div 2, b \div 2)

\* The chunk length of a chunk-size line, an unsigned int of 32 bits kept as
\* its two halves: chunkLen = (chunkLen << 4) | unhex(tmpA[i]), the int that
\* unhex returns being converted to unsigned.
RECURSIVE ChunkLenFrom(_, _, _)
ChunkLenFrom(tmpA, i, chunkLen) ==
  IF i > Len(tmpA) THEN chunkLen
  ELSE LET u == unhex(tmpA[i])
           shifted == [hi |-> (chunkLen.hi * 16 + chunkLen.lo \div 4096) % 65536,
                       lo |-> (chunkLen.lo % 4096) * 16]
       IN  ChunkLenFrom(tmpA, i + 1,
                        [hi |-> BitOr(shifted.hi, IF u < 0 THEN 65535 ELSE 0),
                         lo |-> BitOr(shifted.lo, u % 65536)])

\* An unsigned int of 2^30 or more: more than the bytes any input has.
Huge == 1073741824

\* The unsigned int of two halves as a number, Huge for 2^30 and more.
WordToLen(w) == IF w.hi >= 16384 THEN Huge ELSE w.hi * 65536 + w.lo

\* doingChunk -= toappend, in unsigned arithmetic.
ChunkLeft(doingChunk, toappend) ==
  IF doingChunk = Huge \/ doingChunk < toappend THEN Huge
  ELSE doingChunk - toappend

\* The number of bytes of a Content-Length body to take, without regard to
\* what has been taken already.
BodyToAppendAll(length, bodyLength, size) == Min(length, size)

\* unsigned int toappend = length - body.length(); append and erase take as
\* many bytes as the buffer has.
BodyToAppend(length, bodyLength, size) == Min(length - bodyLength, size)

\* The number of bytes of a chunk to take, without regard to its length.
ChunkToAppendAll(doingChunk, size) == size

\* toappend = HTTPbuffer.size(); if (toappend > doingChunk) toappend = doingChunk
ChunkToAppend(doingChunk, size) == Min(doingChunk, size)

\* parse, if (seenHeaders): one step of the body.  post: whether parseVars
\* was run over the body.
BodyStep(p, HTTPbuffer) ==
  LET out(q, b, r, v) == [p |-> q, HTTPbuffer |-> b, ret |-> r, post |-> v]
  IN  IF p.length > 0
      THEN IF p.headerOnly THEN out(p, HTTPbuffer, TRUE, FALSE)
           ELSE LET n == BodyToAppend(p.length, Len(p.body), Len(HTTPbuffer))
                    body == p.body \o SubSeq(HTTPbuffer, 1, n)
                    rest == SubSeq(HTTPbuffer, n + 1, Len(HTTPbuffer))
                IN  IF p.length = Len(body)
                    THEN out([p EXCEPT !.body = body, !.vars = parseVars(@, body)],
                             rest, TRUE, TRUE)
                    ELSE out([p EXCEPT !.body = body], rest, FALSE, FALSE)
      ELSE IF p.getChunks
      THEN IF p.headerOnly THEN out(p, HTTPbuffer, TRUE, FALSE)
           ELSE IF p.doingChunk # 0
           THEN LET n == ChunkToAppend(p.doingChunk, Len(HTTPbuffer))
                IN  out([p EXCEPT !.body = @ \o SubSeq(HTTPbuffer, 1, n),
                                  !.doingChunk = ChunkLeft(@, n)],
                        SubSeq(HTTPbuffer, n + 1, Len(HTTPbuffer)), FALSE, FALSE)
           ELSE LET f == Find(HTTPbuffer, 10, 1)
                    tmpA == StripCR(SubSeq(HTTPbuffer, 1, f - 1))
                    chunkLen == WordToLen(ChunkLenFrom(tmpA, 1, [hi |-> 0, lo |-> 0]))
                    rest == SubSeq(HTTPbuffer, f + 1, Len(HTTPbuffer))
                IN  IF f = 0 THEN out(p, HTTPbuffer, FALSE, FALSE)
                    ELSE IF tmpA = <<>> THEN out(p, rest, FALSE, FALSE)
                    ELSE IF chunkLen = 0
                    THEN out([p EXCEPT !.getChunks = FALSE], HTTPbuffer, TRUE, FALSE)
                    ELSE out([p EXCEPT !.doingChunk = chunkLen], rest, FALSE, FALSE)
      ELSE out(p, HTTPbuffer, TRUE, FALSE)

\* bool parse(std::string & HTTPbuffer): one turn of the while loop and, by
\* recursion, the turns after it.
RECURSIVE parse(_, _)
parse(p, HTTPbuffer) ==
  IF HTTPbuffer = <<>>
  THEN [p |-> p, HTTPbuffer |-> HTTPbuffer, ret |-> FALSE, post |-> FALSE]
  ELSE IF ~p.seenHeaders
  THEN LET t == TakeLine(HTTPbuffer)
           p1 == IF ~p.seenReq THEN RequestLine(p, t.line)
                 ELSE IF t.line = <<>> THEN EndOfHeaders(p)
                 ELSE HeaderLine(p, t.line)
       IN  IF ~t.found
           THEN [p |-> p, HTTPbuffer |-> HTTPbuffer, ret |-> FALSE, post |-> FALSE]
           ELSE IF p1.seenHeaders THEN BodyStep(p1, t.rest)
           ELSE parse(p1, t.rest)
  ELSE BodyStep(p, HTTPbuffer)

\* bool Read(std::string & strbuf)
Read(p, sbuf) == parse(p, sbuf)

\* Buffer::size(): the back is popped as long as it is empty; the deque left.
RECURSIVE BufferSize(_)
BufferSize(d) ==
  IF Len(d) > 0 /\ d[Len(d)] = <<>> THEN BufferSize(SubSeq(d, 1, Len(d) - 1)) ELSE d

\* Buffer::get(): the back of the deque, or the static empty string.
BufferGet(d) == IF Len(d) > 0 THEN d[Len(d)] ELSE <<>>

\* *(s.rbegin()) != '\n'.  On an empty string rbegin() is rend() and the
\* read is of the byte before the first one: nl tells whether the byte found
\* there is a newline.
EndsInNewline(s, nl) == IF s = <<>> THEN nl ELSE s[Len(s)] = 10

\* Read(conn) with the stored part put in the place of the part after it,
\* not in front of it.
RECURSIVE ReadConnAssign(_, _, _)
ReadConnAssign(p, d, nl) ==
  IF ~EndsInNewline(BufferGet(d), nl)
  THEN LET d1 == BufferSize(d)
       IN  IF Len(d1) > 1
           THEN LET tmp == BufferGet(d1)
                    d2 == BufferSize([d1 EXCEPT ![Len(d1)] = <<>>])
                    d3 == IF Len(d2) > 0 THEN [d2 EXCEPT ![Len(d2)] = tmp]
                          ELSE d2
                IN  ReadConnAssign(p, d3, nl)
           ELSE [p |-> p, d |-> d1, ret |-> FALSE, post |-> FALSE]
  ELSE LET r == parse(p, BufferGet(d))
       IN  [p |-> r.p,
            d |-> IF Len(d) > 0 THEN [d EXCEPT ![Len(d)] = r.HTTPbuffer] ELSE d,
            ret |-> r.ret, post |-> r.post]

\* bool Read(Socket::Connection & conn): [p, d, ret, post], d the deque of
\* conn.Received() afterwards.  The parts at the back are joined until the
\* back ends in a newline, and parse gets the back part alone.
RECURSIVE ReadConn(_, _, _)
ReadConn(p, d, nl) ==
  IF ~EndsInNewline(BufferGet(d), nl)
  THEN LET d1 == BufferSize(d)
       IN  IF Len(d1) > 1
           THEN LET tmp == BufferGet(d1)
                    d2 == BufferSize([d1 EXCEPT ![Len(d1)] = <<>>])
                    d3 == IF Len(d2) > 0 THEN [d2 EXCEPT ![Len(d2)] = tmp \o @]
                          ELSE d2
                IN  ReadConn(p, d3, nl)
           ELSE [p |-> p, d |-> d1, ret |-> FALSE, post |-> FALSE]
  ELSE LET r == parse(p, BufferGet(d))
       IN  [p |-> r.p,
            d |-> IF Len(d) > 0 THEN [d EXCEPT ![Len(d)] = r.HTTPbuffer] ELSE d,
            ret |-> r.ret, post |-> r.post]

\* unsigned int as snprintf("%x") prints it.
RECURSIVE ToHex(_)
ToHex(n) ==
  LET digit == IF n % 16 < 10 THEN 48 + (n % 16) ELSE 87 + (n % 16)
  IN  IF n < 16 THEN <<digit>> ELSE ToHex(n \div 16) \o <<digit>>

\* char len[10]
ChunkLenBuf == 10

\* sizelen = snprintf(len, 10, "%x\r\n", size) and the sizelen bytes of len
\* that are sent: snprintf stores as many characters as fit before the
\* terminating zero and returns the number the whole text has.
ChunkSizeLine(size) ==
  LET text == ToHex(size) \o <<13, 10>>
  IN  IF Len(text) < ChunkLenBuf THEN text
      ELSE SubSeq(text, 1, ChunkLenBuf - 1)
             \o [i \in 1..(Len(text) - ChunkLenBuf + 1) |-> 0]

\* void Chunkify(std::string & bodypart, conn) where the protocol is
\* HTTP/1.1: the bytes sent.
Chunkify(bodypart) ==
  ChunkSizeLine(Len(bodypart)) \o bodypart \o <<13, 10>>
    \o (IF Len(bodypart) = 0 THEN <<13, 10>> ELSE <<>>)

\* No Read done and nothing to read.
NoRead == [ret |-> FALSE, posts |-> 0, steps |-> 0, fed |-> FALSE]

NoInput ==
  [msg |-> <<>>, next |-> <<>>, kind |-> "none", url |-> <<>>, path |-> <<>>,
   vars |-> EmptyMap, chunks |-> <<>>, complete |-> FALSE, length |-> 0,
   bad |-> <<>>, alt |-> <<>>]

\* A Parser that is not used: the state of the other specifications.
HttpIdle ==
  /\ parser = NewParser
  /\ strbuf = <<>>
  /\ hIn = NoInput
  /\ hApp = 0
  /\ hLast = NoRead
  /\ conn = <<>>

\* No call of urlencode made.
UrlIdle == uOp = "none" /\ uArg = <<>> /\ uOut = <<>>

\* Connection(): a Connection that is not connected.
NoConnection ==
  [sock |-> -1, pipes |-> <<-1, -1>>, Error |-> FALSE, up |-> 0, down |-> 0,
   remotehost |-> ""]

\* No operation done.
NoOp ==
  [name |-> "none", pre |-> NoConnection, len |-> 0, r |-> 0, errno |-> "none",
   ret |-> 0, req |-> <<>>, start |-> 0, datas |-> <<>>, had |-> FALSE,
   n |-> 0]

\* Proxy is not running.
NoProxy == [pc |-> "idle", proxyingChunk |-> 0, bodyLen |-> 0]

\* No Connection in use: the state of the other specifications.
SockIdle ==
  /\ cTo = NoConnection
  /\ cFrom = NoConnection
  /\ wire = <<>>
  /\ fdLog = <<>>
  /\ kOp = NoOp
  /\ px = NoProxy

\* No call made on the converter.
NoMp4Op == [name |-> "none", ready |-> FALSE, end |-> FALSE, ret |-> <<>>]

\* No converter made: the state of the other specifications.
Mp4Idle ==
  /\ metaData = <<>>
  /\ keyParts = <<>>
  /\ mp4Header = <<>>
  /\ curKey = 0
  /\ curPart = 0
  /\ trackBuffer = <<>>
  /\ stringBuffer = <<>>
  /\ mFetched = <<>>
  /\ mFed = <<>>
  /\ mOp = NoMp4Op

\* No seek position compared: the state of the other specifications.
SeekIdle == spTriple = <<>> /\ spLess = <<>>

\* No call made.
NoCall ==
  [name |-> "none", ret |-> FALSE, sizes |-> <<>>, drained |-> 0, reads |-> 0,
   took |-> 0, down |-> 0,
   wire |-> <<>>, upbuffer |-> <<>>, fdFlags |-> <<>>, c |-> NoConnection,
   d |-> <<>>, n |-> 0]

\* No send buffer in use: the state of the other specifications.
SendIdle ==
  /\ upbuffer = <<>>
  /\ fdFlags = <<>>
  /\ given = <<>>
  /\ sOp = NoCall

(***************************************************************************)
(* Socket::Connection (lib/socket.cpp).  pipes[1] and pipes[2] are the     *)
(* code's pipes[0], written to, and pipes[1], read from.  A system call is *)
(* given by its result r and, where r < 0, the errno it leaves.            *)
(***************************************************************************)
\* Connection(int sockNo)
ConnectionOfSocket(sockNo) == [NoConnection EXCEPT !.sock = sockNo]

\* Connection(int write, int read)
ConnectionOfPipes(write, read) == [NoConnection EXCEPT !.pipes = <<write, read>>]

\* bool connected() const
connected(c) == c.sock >= 0 \/ (c.pipes[1] >= 0 /\ c.pipes[2] >= 0)

\* void close(): [c, closed], closed the descriptors given to ::close(), which
\* is called again as long as it is interrupted.
close(c) ==
  IF connected(c)
  THEN [c |-> [c EXCEPT !.sock = -1, !.pipes = <<-1, -1>>],
        closed |-> (IF c.sock # -1 THEN <<c.sock>> ELSE <<>>)
                     \o (IF c.pipes[1] # -1 THEN <<c.pipes[1]>> ELSE <<>>)
                     \o (IF c.pipes[2] # -1 THEN <<c.pipes[2]>> ELSE <<>>)]
  ELSE [c |-> c, closed |-> <<>>]

\* strerror(errno)
strerror(errno) ==
  CASE errno = "ECONNRESET" -> "Connection reset by peer"
    [] errno = "EINTR" -> "Interrupted system call"
    [] errno = "EPIPE" -> "Broken pipe"
    [] errno = "EWOULDBLOCK" -> "Resource temporarily unavailable"
    [] OTHER -> "Unknown error"

\* The errno values a failed send, write, recv or read may leave.
Errnos == {"EWOULDBLOCK", "EPIPE", "ECONNRESET", "EINTR"}

\* int iwrite(const void * buffer, int len): [c, closed, ret, tried], r being
\* what send or write returned.
iwrite(c, len, r, errno) ==
  IF ~connected(c) \/ len < 1
  THEN [c |-> c, closed |-> <<>>, ret |-> 0, tried |-> FALSE]
  ELSE IF r < 0
  THEN IF errno = "EWOULDBLOCK"
       THEN [c |-> c, closed |-> <<>>, ret |-> 0, tried |-> TRUE]
       ELSE LET c1 == IF errno # "EPIPE"
                      THEN [c EXCEPT !.Error = TRUE, !.remotehost = strerror(errno)]
                      ELSE c
            IN  [c |-> close(c1).c, closed |-> close(c1).closed, ret |-> 0,
                 tried |-> TRUE]
  ELSE LET k == IF r = 0 /\ c.sock >= 0 THEN close(c)
                ELSE [c |-> c, closed |-> <<>>]
       IN  [c |-> [k.c EXCEPT !.up = @ + r], closed |-> k.closed, ret |-> r,
            tried |-> TRUE]

\* Mutant of iread: a broken pipe sets Error as the other errors do.
ireadPipeIsError(c, len, r, errno) ==
  IF ~connected(c) \/ len < 1
  THEN [c |-> c, closed |-> <<>>, ret |-> 0, tried |-> FALSE]
  ELSE IF r < 0
  THEN IF errno = "EWOULDBLOCK"
       THEN [c |-> c, closed |-> <<>>, ret |-> 0, tried |-> TRUE]
       ELSE LET c1 == [c EXCEPT !.Error = TRUE, !.remotehost = strerror(errno)]
            IN  [c |-> close(c1).c, closed |-> close(c1).closed, ret |-> 0,
                 tried |-> TRUE]
  ELSE LET k == IF r = 0 /\ c.sock >= 0 THEN close(c)
                ELSE [c |-> c, closed |-> <<>>]
       IN  [c |-> [k.c EXCEPT !.down = @ + r], closed |-> k.closed, ret |-> r,
            tried |-> TRUE]

\* int iread(void * buffer, int len): [c, closed, ret, tried], r being what
\* recv or read returned.
iread(c, len, r, errno) ==
  IF ~connected(c) \/ len < 1
  THEN [c |-> c, closed |-> <<>>, ret |-> 0, tried |-> FALSE]
  ELSE IF r < 0
  THEN IF errno = "EWOULDBLOCK"
       THEN [c |-> c, closed |-> <<>>, ret |-> 0, tried |-> TRUE]
       ELSE LET c1 == IF errno # "EPIPE"
                      THEN [c EXCEPT !.Error = TRUE, !.remotehost = strerror(errno)]
                      ELSE c
            IN  [c |-> close(c1).c, closed |-> close(c1).closed, ret |-> 0,
                 tried |-> TRUE]
  ELSE LET k == IF r = 0 /\ c.sock >= 0 THEN close(c)
                ELSE [c |-> c, closed |-> <<>>]
       IN  [c |-> [k.c EXCEPT !.down = @ + r], closed |-> k.closed, ret |-> r,
            tried |-> TRUE]

(***************************************************************************)
(* The senders of HTTP::Parser.  k is the Connection written to with what  *)
(* its descriptor has taken, the descriptors closed and the bytes each send *)
(* or write took: [c, wire, closed, sizes].                                *)
(* A buffer too long to be written out byte by byte is a sequence of one   *)
(* item -n, which stands for n bytes, none of them a line end.             *)
(***************************************************************************)
\* The most bytes SendNow gives to one iwrite after the first.
SendNowMax == 51200

\* The number of bytes of a buffer.
RECURSIVE DataSize(_)
DataSize(d) ==
  IF d = <<>> THEN 0
  ELSE (IF Head(d) < 0 THEN 0 - Head(d) ELSE 1) + DataSize(Tail(d))

\* A call that takes all len bytes.
Full(len) == [r |-> len, errno |-> "none"]

\* What the next iwrite of n bytes gets from the system, os being what the
\* calls to come get, each call after them taking all its bytes.
Outcome(n, os) == IF os = <<>> \/ Head(os).r > n THEN Full(n) ELSE Head(os)

\* k after an iwrite of bytes of d from offset i on that returned w.ret, and
\* that number: [k, j].
Wrote(k, d, i, w) ==
  [k |-> [c |-> w.c,
          wire |-> k.wire \o (IF i = 0 /\ w.ret = DataSize(d) THEN d
                              ELSE SubSeq(d, i + 1, i + w.ret)),
          closed |-> k.closed \o w.closed,
          sizes |-> k.sizes \o (IF w.tried THEN <<w.ret>> ELSE <<>>)],
   j |-> w.ret]

\* One iwrite(data + i, n) of SendNow: [k, j].
WriteSome(k, d, i, n, os) ==
  Wrote(k, d, i, iwrite(k.c, n, Outcome(n, os).r, Outcome(n, os).errno))

\* while (i < len && connected()) of SendNow, and the turn after an iwrite
\* that gave w.
RECURSIVE SendNowLoop(_, _, _, _, _)
RECURSIVE SendNowNext(_, _, _, _, _)
SendNowNext(w, d, len, i, os) ==
  SendNowLoop(w.k, d, len, IF w.j > 0 THEN i + w.j ELSE i,
              IF os = <<>> THEN os ELSE Tail(os))

SendNowLoop(k, d, len, i, os) ==
  IF i < len /\ connected(k.c)
  THEN SendNowNext(WriteSome(k, d, i, Min(len - i, SendNowMax), os), d, len, i, os)
  ELSE k

\* void SendNow(const char * data, size_t len), the upbuffer being empty as
\* Send is never called.
SendNow(k, d, len, os) == SendNowNext(WriteSome(k, d, 0, len, os), d, len, 0, os)

\* a < b for std::string.
RECURSIVE LexLess(_, _)
LexLess(a, b) ==
  IF b = <<>> THEN FALSE
  ELSE IF a = <<>> THEN TRUE
  ELSE IF a[1] # b[1] THEN a[1] < b[1]
  ELSE LexLess(Tail(a), Tail(b))

\* The loop of SendResponse over the headers, in the order of the map.
RECURSIVE SendHeaders(_, _, _)
SendHeaders(headers, todo, k) ==
  IF todo = {} THEN k
  ELSE LET first == CHOOSE x \in todo : \A y \in todo \ {x} : LexLess(x, y)
           second == headers[first]
           builder == first \o <<58, 32>> \o second \o <<13, 10>>
           sends == /\ first # <<>> /\ second # <<>>
                    /\ (first # <<67, 111, 110, 116, 101, 110, 116, 45, 76, 101, 110, 103, 116, 104>> \/ second # <<48>>)
       IN  SendHeaders(headers, todo \ {first},
                       IF sends THEN SendNow(k, builder, Len(builder), <<>>) ELSE k)

\* void SendResponse(std::string code, std::string message, conn): [p, k]
SendResponse(p, code, message, k) ==
  LET protocol == IF Len(p.protocol) < 5 \/ SubSeq(p.protocol, 1, 4) # <<72, 84, 84, 80>>
                  THEN <<72, 84, 84, 80, 47, 49, 46, 48>> ELSE p.protocol
      builder == protocol \o <<32>> \o code \o <<32>> \o message \o <<13, 10>>
      k1 == SendNow(k, builder, Len(builder), <<>>)
      k2 == SendHeaders(p.headers, DOMAIN p.headers, k1)
      k3 == SendNow(k2, <<13, 10>>, 2, <<>>)
  IN  [p |-> [p EXCEPT !.protocol = protocol],
       k |-> SendNow(k3, p.body, Len(p.body), <<>>)]

\* int as sprintf("%i") prints it in SetHeader(i, int v), for v >= 0.
RECURSIVE ToDec(_)
ToDec(n) == IF n < 10 THEN <<48 + n>> ELSE ToDec(n \div 10) \o <<48 + (n % 10)>>

\* void SetBody(std::string s); sprintf "%i" of a length is ToDec of it.
SetBody(p, s) ==
  [p EXCEPT !.body = s,
            !.headers = MapSet(@, Trim(<<67, 111, 110, 116, 101, 110, 116, 45, 76, 101, 110, 103, 116, 104>>), ToDec(Len(s)))]

\* void StartResponse(code, message, HTTP::Parser & request, conn), request
\* being request.protocol: [p, k]
StartResponse(p, code, message, request, k) ==
  LET p1 == [p EXCEPT !.protocol = request, !.body = <<>>]
      p2 == IF p1.protocol = <<72, 84, 84, 80, 47, 49, 46, 49>>
            THEN [p1 EXCEPT !.headers = SetHeader(@, <<84, 114, 97, 110, 115, 102, 101, 114, 45, 69, 110, 99, 111, 100, 105, 110, 103>>,
                                                   <<99, 104, 117, 110, 107, 101, 100>>)]
            ELSE SetBody(p1, <<>>)
  IN  SendResponse(p2, code, message, k)

\* Mutant of ChunkifyTo: the connection is not closed.
ChunkifyToOpen(p, d, size, k) ==
  IF p.protocol = <<72, 84, 84, 80, 47, 49, 46, 49>>
  THEN LET len == ChunkSizeLine(size)
           k1 == SendNow(k, len, Len(len), <<>>)
           k2 == SendNow(k1, d, size, <<>>)
           k3 == SendNow(k2, <<13, 10>>, 2, <<>>)
       IN  IF size = 0 THEN SendNow(k3, <<13, 10>>, 2, <<>>) ELSE k3
  ELSE SendNow(k, d, size, <<>>)

\* void Chunkify(const char * data, unsigned int size, conn): k afterwards.
ChunkifyTo(p, d, size, k) ==
  IF p.protocol = <<72, 84, 84, 80, 47, 49, 46, 49>>
  THEN LET len == ChunkSizeLine(size)
           k1 == SendNow(k, len, Len(len), <<>>)
           k2 == SendNow(k1, d, size, <<>>)
           k3 == SendNow(k2, <<13, 10>>, 2, <<>>)
       IN  IF size = 0 THEN SendNow(k3, <<13, 10>>, 2, <<>>) ELSE k3
  ELSE LET k1 == SendNow(k, d, size, <<>>)
       IN  IF size = 0
           THEN [k1 EXCEPT !.c = close(k1.c).c, !.closed = @ \o close(k1.c).closed]
           ELSE k1

\* downbuffer.size() > 10000
SpoolMax == 10000

\* spool() after downbuffer.size() left d0 and, where it is called, iread
\* gave w.
Spooled(d0, incoming, c, w) ==
  IF Len(d0) > SpoolMax
  THEN [c |-> c, d |-> d0, ret |-> TRUE, closed |-> <<>>, took |-> 0]
  ELSE IF w.ret < 1
  THEN [c |-> w.c, d |-> d0, ret |-> FALSE, closed |-> w.closed, took |-> 0]
  ELSE [c |-> w.c, d |-> BufferAppend(d0, SubSeq(incoming, 1, w.ret)),
        ret |-> TRUE, closed |-> w.closed, took |-> w.ret]

\* bool spool(), the upbuffer being empty: [c, d, ret, closed, took].  d is
\* the downbuffer, incoming the bytes the descriptor has to give and o what
\* recv or read returns; iread(Buffer &) asks for BUFFER_BLOCKSIZE bytes and
\* appends what it got.
spool(c, d, incoming, o) ==
  Spooled(BufferSize(d), incoming, c, iread(c, BUFFER_BLOCKSIZE, o.r, o.errno))

\* from.Received().get().clear()
ClearBack(d) == IF Len(d) > 0 THEN [d EXCEPT ![Len(d)] = <<>>] ELSE d

\* The receive buffer after toappend bytes of its back part were sent.
TakeFront(d0, toappend) ==
  [d0 EXCEPT ![Len(d0)] = SubSeq(@, toappend + 1, Len(@))]

\* Mutant of ForwardChunk: every part is sent whole.
RECURSIVE ForwardChunkWhole(_, _, _, _)
ForwardChunkWhole(d, k, proxyingChunk, os) ==
  IF proxyingChunk # 0 /\ Len(BufferSize(d)) > 0
  THEN LET toappend == Len(BufferGet(BufferSize(d)))
       IN  ForwardChunkWhole(TakeFront(BufferSize(d), toappend),
                             SendNow(k, SubSeq(BufferGet(BufferSize(d)), 1, toappend),
                                     toappend, os),
                             ChunkLeft(proxyingChunk, toappend), <<>>)
  ELSE [d |-> IF proxyingChunk # 0 THEN BufferSize(d) ELSE d, k |-> k,
        proxyingChunk |-> proxyingChunk]

\* Proxy, while (proxyingChunk && from.Received().size()): the bytes of the
\* chunk that have arrived are sent: [d, k, proxyingChunk].
RECURSIVE ForwardChunk(_, _, _, _)
ForwardChunk(d, k, proxyingChunk, os) ==
  IF proxyingChunk # 0 /\ Len(BufferSize(d)) > 0
  THEN LET toappend == Min(Len(BufferGet(BufferSize(d))), proxyingChunk)
       IN  ForwardChunk(TakeFront(BufferSize(d), toappend),
                        SendNow(k, SubSeq(BufferGet(BufferSize(d)), 1, toappend),
                                toappend, os),
                        ChunkLeft(proxyingChunk, toappend), <<>>)
  ELSE [d |-> IF proxyingChunk # 0 THEN BufferSize(d) ELSE d, k |-> k,
        proxyingChunk |-> proxyingChunk]

\* tmp put in front of the back part of d2, if there is one.
InsertFront(d2, tmp) ==
  IF Len(d2) > 0 THEN [d2 EXCEPT ![Len(d2)] = tmp \o @] ELSE d2

\* Proxy, the part that is to end in a newline: where it does not, it is
\* put in front of the part after it, if there is one.  The deque.
JoinParts(d, nl) ==
  IF EndsInNewline(BufferGet(d), nl) THEN d
  ELSE IF Len(BufferSize(d)) > 1
  THEN InsertFront(BufferSize(ClearBack(BufferSize(d))), BufferGet(BufferSize(d)))
  ELSE BufferSize(d)

\* Proxy, after the line at the back of d was sent, k1 being the sink then
\* and tmpA the line without its end: [p, d, k, proxyingChunk, returned].
SizeLineRead(p, d, k1, tmpA) ==
  LET chunkLen == WordToLen(ChunkLenFrom(tmpA, 1, [hi |-> 0, lo |-> 0]))
  IN  IF tmpA # <<>> /\ chunkLen = 0
      THEN [p |-> [p EXCEPT !.getChunks = FALSE], d |-> d,
            k |-> SendNow(k1, <<13, 10>>, 2, <<>>), proxyingChunk |-> 0, returned |-> TRUE]
      ELSE [p |-> p, d |-> ClearBack(d), k |-> k1,
            proxyingChunk |-> IF tmpA # <<>> THEN chunkLen ELSE 0,
            returned |-> FALSE]

\* Proxy, a chunk-size line or an empty line at the back of the deque: it is
\* sent, and its length read.
SizeLine(p, d, k, os) ==
  SizeLineRead(p, d, SendNow(k, BufferGet(d), Len(BufferGet(d)), os),
               StripCR(SubSeq(BufferGet(d), 1, Len(BufferGet(d)) - 1)))

\* What a turn leaves: s is what the test of the turn left of the source,
\* z what the turn left of the Parser, the buffer and the sink.
Turn(s, z) ==
  [p |-> z.p, d |-> z.d, c |-> s.c, closed |-> s.closed, took |-> s.took,
   k |-> z.k, proxyingChunk |-> z.proxyingChunk, returned |-> z.returned]

\* A turn that does not return, f being [d, k, proxyingChunk].
Going(p, f) ==
  [p |-> p, d |-> f.d, k |-> f.k, proxyingChunk |-> f.proxyingChunk,
   returned |-> FALSE]

\* Proxy, a turn with proxyingChunk at 0, j being the buffer after the parts
\* at its back were joined.
LineTurn(p, s, j, k, nl, os) ==
  IF ~EndsInNewline(BufferGet(j), nl)
  THEN Turn(s, Going(p, [d |-> j, k |-> k, proxyingChunk |-> 0]))
  ELSE Turn(s, SizeLine(p, j, k, os))

\* Proxy, one turn of the loop of the chunked mode after its test left s.
ChunkTurn(p, s, k, proxyingChunk, nl, os) ==
  IF ~s.ret
  THEN Turn(s, Going(p, [d |-> s.d, k |-> k, proxyingChunk |-> proxyingChunk]))
  ELSE IF proxyingChunk # 0
  THEN Turn(s, Going(p, ForwardChunk(s.d, k, proxyingChunk, os)))
  ELSE LineTurn(p, s, JoinParts(s.d, nl), k, nl, os)

\* Proxy, the test of a turn of the chunked mode: parts wait and there are
\* several or the one ends in a newline, or spool() is called.
ChunkReady(d0, c, incoming, o, nl) ==
  IF Len(d0) > 0 /\ (Len(d0) > 1 \/ EndsInNewline(BufferGet(d0), nl))
  THEN [c |-> c, d |-> d0, ret |-> TRUE, closed |-> <<>>, took |-> 0]
  ELSE spool(c, d0, incoming, o)

\* Proxy, one turn of the loop of the chunked mode, both Connections being
\* connected: [p, d, c, closed, took, k, proxyingChunk, returned].
ProxyChunkTurn(p, d, c, incoming, k, proxyingChunk, o, nl, os) ==
  ChunkTurn(p, ChunkReady(BufferSize(d), c, incoming, o, nl), k, proxyingChunk,
            nl, os)

\* Proxy, the test of a turn of the Content-Length mode: a part waits, or
\* spool() is called.
BodyReady(d0, c, incoming, o) ==
  IF Len(d0) > 0
  THEN [c |-> c, d |-> d0, ret |-> TRUE, closed |-> <<>>, took |-> 0]
  ELSE spool(c, d0, incoming, o)

\* Mutant of BodyTurn: a part is sent whole.
BodyTurnWhole(s, k, bodyLen, os) ==
  LET n == Len(BufferGet(s.d))
  IN  IF ~s.ret
      THEN [d |-> s.d, c |-> s.c, closed |-> s.closed, took |-> s.took, k |-> k,
            bodyLen |-> bodyLen]
      ELSE [d |-> TakeFront(s.d, n), c |-> s.c, closed |-> s.closed,
            took |-> s.took,
            k |-> SendNow(k, SubSeq(BufferGet(s.d), 1, n), n, os),
            bodyLen |-> IF n > bodyLen THEN 0 ELSE bodyLen - n]

\* Proxy, one turn of the loop of the Content-Length mode after its test
\* left s: [d, c, closed, took, k, bodyLen].
BodyTurn(s, k, bodyLen, os) ==
  LET n == Min(Len(BufferGet(s.d)), bodyLen)
  IN  IF ~s.ret
      THEN [d |-> s.d, c |-> s.c, closed |-> s.closed, took |-> s.took, k |-> k,
            bodyLen |-> bodyLen]
      ELSE [d |-> TakeFront(s.d, n), c |-> s.c, closed |-> s.closed,
            took |-> s.took,
            k |-> SendNow(k, SubSeq(BufferGet(s.d), 1, n), n, os),
            bodyLen |-> bodyLen - n]

\* Proxy, one turn of the loop of the Content-Length mode, bodyLen being
\* more than 0 and both Connections connected.
ProxyBodyTurn(d, c, incoming, k, bodyLen, o, os) ==
  BodyTurn(BodyReady(BufferSize(d), c, incoming, o), k, bodyLen, os)

(***************************************************************************)
(* Socket::Connection with its send buffer.  q is the Connection, the deque*)
(* of upbuffer, what the descriptor has taken, the descriptors closed and  *)
(* the bytes each send or write took: [c, up, wire, closed, sizes].  The   *)
(* file status flags of a descriptor are a set of their names.             *)
(***************************************************************************)
\* void setFDBlocking(int FD, bool blocking): the flags given to F_SETFL.
\* !O_NONBLOCK is 0, so that flags &= !O_NONBLOCK leaves no flag.
setFDBlocking(flags, blocking) ==
  IF ~blocking THEN flags \cup {"O_NONBLOCK"} ELSE {}

\* bool isFDBlocking(int FD)
isFDBlocking(flags) == "O_NONBLOCK" \notin flags

\* void setBlocking(bool blocking): f, the flags of every descriptor, after.
setBlocking(c, f, blocking) ==
  [fd \in DOMAIN f |->
     IF fd >= 0 /\ fd \in {c.sock, c.pipes[1], c.pipes[2]}
     THEN setFDBlocking(f[fd], blocking) ELSE f[fd]]

\* bool isBlocking()
isBlocking(c, f) ==
  IF c.sock >= 0 THEN isFDBlocking(f[c.sock])
  ELSE IF c.pipes[1] >= 0 THEN isFDBlocking(f[c.pipes[1]])
  ELSE IF c.pipes[2] >= 0 THEN isFDBlocking(f[c.pipes[2]])
  ELSE FALSE

\* iwrite(std::string & buffer) after iwrite(buffer.c_str(), buffer.size())
\* gave w: [c, closed, buffer, ret, tried, taken].
WroteString(buffer, w) ==
  [c |-> w.c, closed |-> w.closed,
   buffer |-> IF w.ret < 1 THEN buffer ELSE SubSeq(buffer, w.ret + 1, Len(buffer)),
   ret |-> w.ret >= 1, tried |-> w.tried, taken |-> SubSeq(buffer, 1, w.ret)]

\* bool iwrite(std::string & buffer), o being what send or write returns.
iwriteString(c, buffer, o) ==
  IF Len(buffer) < 1
  THEN [c |-> c, closed |-> <<>>, buffer |-> buffer, ret |-> FALSE,
        tried |-> FALSE, taken |-> <<>>]
  ELSE WroteString(buffer, iwrite(c, Len(buffer), o.r, o.errno))

\* q after iwrite(upbuffer.get()) gave w, u being the deque that
\* upbuffer.size() left, and what the call returned: [q, ret].
UpAfter(q, u, w) ==
  [q |-> [c |-> w.c,
          up |-> IF Len(u) > 0 THEN [u EXCEPT ![Len(u)] = w.buffer] ELSE u,
          wire |-> q.wire \o w.taken,
          closed |-> q.closed \o w.closed,
          sizes |-> q.sizes \o (IF w.tried THEN <<Len(w.taken)>> ELSE <<>>)],
   ret |-> w.ret]

\* iwrite(upbuffer.get()) after upbuffer.size(), os being what the calls to
\* come get from the system.
WriteUp(q, os) ==
  UpAfter(q, BufferSize(q.up),
          iwriteString(q.c, BufferGet(BufferSize(q.up)),
                       Outcome(Len(BufferGet(BufferSize(q.up))), os)))

\* The outcomes left after one call.
Rest(os) == IF os = <<>> THEN os ELSE Tail(os)

\* spool() after its test of upbuffer left q1: [q, d, ret, took, reads].
SpoolDown(q1, d, incoming, o) ==
  [q |-> [q1 EXCEPT !.c = spool(q1.c, d, incoming, o).c,
                    !.closed = @ \o spool(q1.c, d, incoming, o).closed],
   d |-> spool(q1.c, d, incoming, o).d,
   ret |-> spool(q1.c, d, incoming, o).ret,
   took |-> spool(q1.c, d, incoming, o).took,
   reads |-> IF Len(BufferSize(d)) <= SpoolMax
                /\ iread(q1.c, BUFFER_BLOCKSIZE, o.r, o.errno).tried
             THEN 1 ELSE 0]

\* Mutant of spoolConnection: true as well when the write took bytes.
spoolEitherWay(q, d, incoming, ow, o) ==
  IF Len(BufferSize(q.up)) > 0
  THEN [SpoolDown(WriteUp(q, <<ow>>).q, d, incoming, o) EXCEPT
          !.ret = @ \/ WriteUp(q, <<ow>>).ret]
  ELSE SpoolDown([q EXCEPT !.up = BufferSize(q.up)], d, incoming, o)

\* bool spool(): d is the deque of downbuffer, incoming the bytes the
\* descriptor has to give, ow what send or write returns and o what recv or
\* read returns.
spoolConnection(q, d, incoming, ow, o) ==
  IF Len(BufferSize(q.up)) > 0
  THEN SpoolDown(WriteUp(q, <<ow>>).q, d, incoming, o)
  ELSE SpoolDown([q EXCEPT !.up = BufferSize(q.up)], d, incoming, o)

\* SendNow, while (upbuffer.size() > 0 && connected()): q.
RECURSIVE DrainLoop(_, _)
DrainLoop(q, os) ==
  IF Len(BufferSize(q.up)) > 0 /\ connected(q.c)
  THEN DrainLoop(WriteUp(q, os).q, Rest(os))
  ELSE [q EXCEPT !.up = BufferSize(q.up)]

\* SendNow after the send buffer was written out, which left q1, and the
\* data was, which left k: [q, drained].
SentNow(q1, k) ==
  [q |-> [c |-> k.c, up |-> q1.up, wire |-> k.wire, closed |-> k.closed,
          sizes |-> k.sizes],
   drained |-> Len(q1.sizes)]

\* SendNow between its two calls of setBlocking: [q, drained], drained the
\* number of sends and writes before the first one of data.
SendNowData(q1, d, len, os) ==
  SentNow(q1, SendNow([c |-> q1.c, wire |-> q1.wire, closed |-> q1.closed,
                       sizes |-> q1.sizes], d, len, os))

\* void SendNow(const char * data, size_t len): [q, drained, f], osU being
\* what the sends of upbuffer get and os what those of data get.
SendNowConnection(q, f, d, len, osU, os) ==
  [q |-> SendNowData(DrainLoop(q, osU), d, len, os).q,
   drained |-> SendNowData(DrainLoop(q, osU), d, len, os).drained,
   f |-> IF isBlocking(q.c, f) THEN f
         ELSE setBlocking(SendNowData(DrainLoop(q, osU), d, len, os).q.c,
                          setBlocking(q.c, f, TRUE), FALSE)]

\* Send, while (upbuffer.size() > 0): a call that returns false ends it.
RECURSIVE SendLoop(_, _)
SendLoopNext(w, os) == IF w.ret THEN SendLoop(w.q, Rest(os)) ELSE w.q

SendLoop(q, os) ==
  IF Len(BufferSize(q.up)) > 0 THEN SendLoopNext(WriteUp(q, os), os)
  ELSE [q EXCEPT !.up = BufferSize(q.up)]

\* Send after iwrite(data, len) gave w: what was not taken is appended.
SentData(q1, d, w) ==
  [c |-> w.c,
   up |-> IF w.ret < Len(d)
          THEN BufferAppend(q1.up, SubSeq(d, w.ret + 1, Len(d))) ELSE q1.up,
   wire |-> q1.wire \o SubSeq(d, 1, w.ret),
   closed |-> q1.closed \o w.closed,
   sizes |-> q1.sizes \o (IF w.tried THEN <<w.ret>> ELSE <<>>)]

\* Mutant of SendQueue: the data is written though older bytes wait.
SendQueueJump(q1, d, o) ==
  SentData(q1, d, iwrite(q1.c, Len(d), Outcome(Len(d), <<o>>).r,
                         Outcome(Len(d), <<o>>).errno))

\* Send after its loop left q1, o being what the send of data gets.
SendQueue(q1, d, o) ==
  IF Len(BufferSize(q1.up)) > 0
  THEN [q1 EXCEPT !.up = BufferAppend(BufferSize(q1.up), d)]
  ELSE SentData(q1, d, iwrite(q1.c, Len(d), Outcome(Len(d), <<o>>).r,
                              Outcome(Len(d), <<o>>).errno))

\* void Send(const char * data, size_t len): q.
Send(q, d, osU, o) == SendQueue(SendLoop(q, osU), d, o)

\* void Clean()
Clean(p) == [NewParser EXCEPT !.headerOnly = p.headerOnly]

\* A Tag that is not used: the state of the other specifications.
FlvIdle ==
  /\ tag = NewTag
  /\ Parse_Error = FALSE
  /\ Header = DefaultHeader
  /\ flvSigned = FALSE
  /\ flvIn = <<>>
  /\ flvOff = 0
  /\ flvS = 0
  /\ flvP = 0
  /\ flvStart = 0
  /\ flvLast = NoLoad

\* No Tag operation done: the state of the other specifications.
ConvIdle ==
  /\ cOp = "none"
  /\ cArg = NoWord
  /\ cOut = NoWord
  /\ cMeta = NoMeta

\* A new Tag and a byte stream to load from, nothing of it handed over yet.
FlvInit ==
  /\ tag = NewTag
  /\ Parse_Error = FALSE
  /\ Header = DefaultHeader
  /\ flvSigned \in BOOLEAN
  /\ flvIn \in FlvStreams
  /\ flvOff = 0
  /\ flvS = 0
  /\ flvP = 0
  /\ flvStart = 0
  /\ flvLast = NoLoad

(***************************************************************************)
(* Actions.                                                                *)
(***************************************************************************)
DoAppend(x) ==
  /\ bufOps < MaxBufOps
  /\ data' = BufferAppend(data, x)
  /\ bufOp' = "append"
  /\ bufArg' = x
  /\ bufPre' = Flatten(data)
  /\ bufOps' = bufOps + 1
  /\ UNCHANGED bufRet
  /\ UNCHANGED streamVars
  /\ UNCHANGED flvVars
  /\ UNCHANGED mp4Vars
  /\ UNCHANGED seekVars
  /\ UNCHANGED sendVars
  /\ UNCHANGED sockVars
  /\ UNCHANGED urlVars
  /\ UNCHANGED httpVars
  /\ UNCHANGED convVars
  /\ UNCHANGED concVars

BufAppendShort ==
  \E x \in ShortStrings : DoAppend(x) /\ UNCHANGED bufLongs

BufAppendLong ==
  /\ bufLongs < MaxLongs
  /\ \E x \in LongStrings : DoAppend(x)
  /\ bufLongs' = bufLongs + 1

BufRemove ==
  \E count \in RemoveCounts :
    LET r == BufferRemove(data, count)
    IN  /\ bufOps < MaxBufOps
        /\ data' = r.d
        /\ bufRet' = r.ret
        /\ bufOp' = "remove"
        /\ bufArg' = count
        /\ bufPre' = Flatten(data)
        /\ bufOps' = bufOps + 1
        /\ UNCHANGED bufLongs
        /\ UNCHANGED streamVars
        /\ UNCHANGED flvVars
        /\ UNCHANGED mp4Vars
        /\ UNCHANGED seekVars
        /\ UNCHANGED sendVars
        /\ UNCHANGED sockVars
        /\ UNCHANGED urlVars
        /\ UNCHANGED httpVars
        /\ UNCHANGED convVars
        /\ UNCHANGED concVars

BufNext == BufAppendShort \/ BufAppendLong \/ BufRemove

\* addPacket(p).
DoAddPacket(p) ==
  LET a == AddPacket(buffers, keyframes, rings, buffercount, trackKind, p)
  IN  /\ sAdds < sMaxAdds
      /\ buffers' = a.b
      /\ keyframes' = a.k
      /\ rings' = a.r
      /\ sLast' = LastOp("add", 0, a.lp, LivePos(p.time, p.track), a.cuts,
                         Cardinality(buffers), Cardinality(a.mid), rings,
                         FALSE, {}, LivePos(0, 0))
      /\ sWait' = NoteNews(sWait, rings, a.lp)
      /\ sAdds' = sAdds + 1
      /\ UNCHANGED <<buffercount, buffertime, trackKind, sMaxAdds, sFeed>>
      /\ UNCHANGED bufVars
      /\ UNCHANGED mp4Vars
      /\ UNCHANGED seekVars
      /\ UNCHANGED sendVars
      /\ UNCHANGED sockVars
      /\ UNCHANGED urlVars
      /\ UNCHANGED httpVars
      /\ UNCHANGED convVars
      /\ UNCHANGED flvVars
      /\ UNCHANGED concVars

\* The writer alone.
StreamAddPacket == \E p \in PacketInputs(trackKind, MaxTime) : DoAddPacket(p)

StreamNext == StreamAddPacket

\* The writer of the runs with a reader.
RingAddPacket == \E p \in PacketInputs(trackKind, MaxRingTime) : DoAddPacket(p)

\* The writer of a scenario run: addPacket(p), p having the next timestamp.
ScenarioAddPacket ==
  /\ sAdds < sMaxAdds
  /\ \E p \in ScenarioInputs(sAdds + 1) :
       LET a == AddPacket(buffers, keyframes, rings, buffercount, trackKind, p)
       IN  /\ buffers' = a.b
           /\ keyframes' = a.k
           /\ rings' = a.r
           /\ sLast' = LastOp("add", 0, a.lp, LivePos(p.time, p.track),
                              a.cuts, Cardinality(buffers),
                              Cardinality(a.mid), rings,
                              FALSE, {}, LivePos(0, 0))
           /\ sFeed' = Append(sFeed, p)
  /\ sAdds' = sAdds + 1
  /\ UNCHANGED <<buffercount, buffertime, trackKind, sMaxAdds, sWait>>
  /\ UNCHANGED bufVars
  /\ UNCHANGED mp4Vars
  /\ UNCHANGED seekVars
  /\ UNCHANGED sendVars
  /\ UNCHANGED sockVars
  /\ UNCHANGED urlVars
  /\ UNCHANGED httpVars
  /\ UNCHANGED convVars
  /\ UNCHANGED flvVars
  /\ UNCHANGED concVars

ScenarioNext == ScenarioAddPacket

\* A reader: getRing(), for a reader that will read the tracks in allowed.
ReaderGetRing ==
  \E x \in Readers : \E allowed \in (SUBSET Tracks) \ {{}} :
    /\ ~rings[x].live
    /\ buffers # {}
    /\ rings' = [rings EXCEPT ![x] =
                   [live |-> TRUE, pos |-> RingStart(buffers, keyframes),
                    waiting |-> FALSE, starved |-> FALSE, updated |-> TRUE,
                    allowed |-> allowed]]
    /\ sLast' = LastOp("ring", x, RingStart(buffers, keyframes), LivePos(0, 0),
                       0, Cardinality(buffers), Cardinality(buffers), rings,
                       FALSE, {}, LivePos(0, 0))
    /\ UNCHANGED <<buffers, keyframes, buffercount, buffertime, trackKind,
                   sAdds, sMaxAdds, sFeed, sWait>>
    /\ UNCHANGED bufVars
    /\ UNCHANGED mp4Vars
    /\ UNCHANGED seekVars
    /\ UNCHANGED sendVars
    /\ UNCHANGED sockVars
    /\ UNCHANGED urlVars
    /\ UNCHANGED httpVars
    /\ UNCHANGED convVars
    /\ UNCHANGED flvVars
    /\ UNCHANGED concVars

\* A reader: pos = getNext(pos, allowed); waiting is set when pos is
\* returned unchanged.
ReaderGetNext ==
  \E x \in Readers :
    LET ring == rings[x]
        npos == GetNext(buffers, ring.pos, ring.allowed)
    IN  /\ ring.live
        /\ rings' = [rings EXCEPT ![x] =
                       [ring EXCEPT !.pos = npos, !.waiting = (npos = ring.pos)]]
        /\ sLast' = LastOp("next", x, npos, ring.pos, 0, Cardinality(buffers),
                           Cardinality(buffers), rings,
                           sWait[x].armed /\ sWait[x].news # {},
                           sWait[x].news, sWait[x].cursor)
        /\ sWait' = [sWait EXCEPT ![x] =
                       [armed |-> (npos = ring.pos), cursor |-> npos, news |-> {}]]
        /\ UNCHANGED <<buffers, keyframes, buffercount, buffertime, trackKind,
                       sAdds, sMaxAdds, sFeed>>
        /\ UNCHANGED bufVars
        /\ UNCHANGED mp4Vars
        /\ UNCHANGED seekVars
        /\ UNCHANGED sendVars
        /\ UNCHANGED sockVars
        /\ UNCHANGED urlVars
        /\ UNCHANGED httpVars
        /\ UNCHANGED convVars
        /\ UNCHANGED flvVars
        /\ UNCHANGED concVars

RingNext == RingAddPacket \/ ReaderGetRing \/ ReaderGetNext

\* The writer, step by step.  Steps 1 and 2 of addPacket: the position is
\* made unique and a keyframe is entered in the index.
WriterBegin ==
  \E p \in PacketInputs(trackKind, MaxRingTime) :
    LET lp == UniquePos(buffers, LivePos(p.time, p.track))
        a  == AddPacket(buffers, keyframes, rings, buffercount, trackKind, p)
    IN  /\ wPc = "idle"
        /\ sAdds < sMaxAdds
        /\ keyframes' = IF p.kind = "video" /\ p.key
                        THEN [keyframes EXCEPT ![p.track] = @ \cup {lp}]
                        ELSE keyframes
        /\ wReg' = [p |-> p, lp |-> lp, h |-> LivePos(0, 0)]
        /\ wSnap' = [pre  |-> Snapshot(buffers, keyframes, rings),
                     post |-> Snapshot(a.b, a.k, a.r)]
        /\ wPc' = "indexed"
        /\ sLast' = LastOp("write", 0, lp, LivePos(p.time, p.track), 0,
                           Cardinality(buffers), Cardinality(buffers), rings,
                           FALSE, {}, LivePos(0, 0))
        /\ UNCHANGED <<buffers, buffercount, buffertime, trackKind, rings,
                       sAdds, sMaxAdds, sFeed, sWait>>
        /\ UNCHANGED bufVars
        /\ UNCHANGED mp4Vars
        /\ UNCHANGED seekVars
        /\ UNCHANGED sendVars
        /\ UNCHANGED sockVars
        /\ UNCHANGED urlVars
        /\ UNCHANGED httpVars
        /\ UNCHANGED convVars
        /\ UNCHANGED flvVars

\* Step 3 of addPacket: the packet is stored.
WriterInsert ==
  /\ wPc = "indexed"
  /\ buffers' = MapAssign(buffers, wReg.lp, wReg.p)
  /\ wPc' = "inserted"
  /\ UNCHANGED <<keyframes, buffercount, buffertime, trackKind, rings, sLast,
                 sAdds, sMaxAdds, sFeed, sWait, wReg, wSnap>>
  /\ UNCHANGED bufVars
  /\ UNCHANGED mp4Vars
  /\ UNCHANGED seekVars
  /\ UNCHANGED sendVars
  /\ UNCHANGED sockVars
  /\ UNCHANGED urlVars
  /\ UNCHANGED httpVars
  /\ UNCHANGED convVars
  /\ UNCHANGED flvVars

\* Step 4 of addPacket, the condition holding: cutOneBuffer drops packets.
WriterDrop ==
  LET c == CutOneBuffer(buffers, keyframes, rings, trackKind)
  IN  /\ wPc = "inserted"
      /\ RetentionHolds(buffers, keyframes, buffercount, trackKind)
      /\ buffers' = c.b
      /\ keyframes' = c.k
      /\ wReg' = [wReg EXCEPT !.h = c.h]
      /\ wPc' = "dropped"
      /\ UNCHANGED <<buffercount, buffertime, trackKind, rings, sLast, sAdds,
                     sMaxAdds, sFeed, sWait, wSnap>>
      /\ UNCHANGED bufVars
      /\ UNCHANGED mp4Vars
      /\ UNCHANGED seekVars
      /\ UNCHANGED sendVars
      /\ UNCHANGED sockVars
      /\ UNCHANGED urlVars
      /\ UNCHANGED httpVars
      /\ UNCHANGED convVars
      /\ UNCHANGED flvVars

\* cutOneBuffer, after the drop: the deletion callback.
WriterCallback ==
  /\ wPc = "dropped"
  /\ rings' = DeletionCallback(rings, wReg.h)
  /\ wPc' = "inserted"
  /\ UNCHANGED <<buffers, keyframes, buffercount, buffertime, trackKind, sLast,
                 sAdds, sMaxAdds, sFeed, sWait, wReg, wSnap>>
  /\ UNCHANGED bufVars
  /\ UNCHANGED mp4Vars
  /\ UNCHANGED seekVars
  /\ UNCHANGED sendVars
  /\ UNCHANGED sockVars
  /\ UNCHANGED urlVars
  /\ UNCHANGED httpVars
  /\ UNCHANGED convVars
  /\ UNCHANGED flvVars

\* Step 4 of addPacket, the condition not holding: addPacket returns.
WriterEnd ==
  /\ wPc = "inserted"
  /\ ~RetentionHolds(buffers, keyframes, buffercount, trackKind)
  /\ wPc' = "idle"
  /\ sAdds' = sAdds + 1
  /\ sLast' = LastOp("end", 0, wReg.lp, wReg.lp, 0, Cardinality(buffers),
                     Cardinality(buffers), rings, FALSE, {}, LivePos(0, 0))
  /\ UNCHANGED <<buffers, keyframes, buffercount, buffertime, trackKind, rings,
                 sMaxAdds, sFeed, sWait, wReg, wSnap>>
  /\ UNCHANGED bufVars
  /\ UNCHANGED mp4Vars
  /\ UNCHANGED seekVars
  /\ UNCHANGED sendVars
  /\ UNCHANGED sockVars
  /\ UNCHANGED urlVars
  /\ UNCHANGED httpVars
  /\ UNCHANGED convVars
  /\ UNCHANGED flvVars

\* The readers of these runs: they observe the Stream when they may.
ConcGetRing == ReaderMayObserve /\ ReaderGetRing
ConcGetNext == ReaderMayObserve /\ ReaderGetNext

ConcNext ==
  \/ WriterBegin \/ WriterInsert \/ WriterDrop \/ WriterCallback \/ WriterEnd
  \/ ConcGetRing \/ ConcGetNext

\* The caller, its buffer used up, comes with the next bytes of the stream.
FlvFeed ==
  LET rest == Len(flvIn) - (flvOff + flvS)
  IN  /\ flvP = flvS
      /\ rest > 0
      /\ \E n \in (1..Min(MaxChunk, rest)) \cup {rest} :
            /\ flvOff' = flvOff + flvS
            /\ flvS' = n
            /\ flvP' = 0
      /\ UNCHANGED <<tag, Parse_Error, Header, flvSigned, flvIn, flvStart, flvLast>>
      /\ UNCHANGED bufVars
      /\ UNCHANGED mp4Vars
      /\ UNCHANGED seekVars
      /\ UNCHANGED sendVars
      /\ UNCHANGED sockVars
      /\ UNCHANGED urlVars
      /\ UNCHANGED httpVars
      /\ UNCHANGED convVars
      /\ UNCHANGED streamVars
      /\ UNCHANGED concVars

\* The caller: MemLoader(D, S, P).
FlvMemLoader ==
  \E ok1, ok2 \in BOOLEAN :
    LET D == SubSeq(flvIn, flvOff + 1, flvOff + flvS)
        o == MemLoader(tag, Parse_Error, Header, D, flvS, flvP, flvSigned, ok1, ok2)
        at == flvOff + o.P
    IN  /\ tag' = o.t
        /\ Parse_Error' = o.Parse_Error
        /\ Header' = o.Header
        /\ flvP' = o.P
        /\ flvLast' = [ret |-> o.ret, start |-> flvStart, used |-> at - flvStart]
        /\ flvStart' = IF o.t.sofar = 0 THEN at ELSE flvStart
        /\ UNCHANGED <<flvSigned, flvIn, flvOff, flvS>>
        /\ UNCHANGED bufVars
        /\ UNCHANGED mp4Vars
        /\ UNCHANGED seekVars
        /\ UNCHANGED sendVars
        /\ UNCHANGED sockVars
        /\ UNCHANGED urlVars
        /\ UNCHANGED httpVars
        /\ UNCHANGED convVars
        /\ UNCHANGED streamVars
        /\ UNCHANGED concVars

FlvNext == FlvFeed \/ FlvMemLoader

(***************************************************************************)
(* The timestamp accessors, called on a loaded video tag.                  *)
(***************************************************************************)
TimeByteValues == {0, 127, 128, 255}

TimeHalves == {a * 256 + b : a, b \in TimeByteValues}

TimeWords == {[hi |-> h, lo |-> l] : h, l \in TimeHalves}

TimeInit ==
  /\ tag = [data |-> TagBytes(9, <<23>>), len |-> 16, buf |-> 16, sofar |-> 0,
            done |-> TRUE, isKeyframe |-> TRUE]
  /\ Parse_Error = FALSE
  /\ Header = DefaultHeader
  /\ flvSigned \in BOOLEAN
  /\ flvIn = <<>>
  /\ flvOff = 0
  /\ flvS = 0
  /\ flvP = 0
  /\ flvStart = 0
  /\ flvLast = NoLoad
  /\ ConvIdle

TagTimeSet ==
  \E T \in TimeWords :
    /\ tag' = [tag EXCEPT !.data = tagTimeSet(tag.data, T)]
    /\ cOp' = "set"
    /\ cArg' = T
    /\ cOut' = NoWord
    /\ UNCHANGED cMeta
    /\ UNCHANGED <<Parse_Error, Header, flvSigned, flvIn, flvOff, flvS, flvP,
                   flvStart, flvLast>>
    /\ UNCHANGED bufVars
    /\ UNCHANGED mp4Vars
    /\ UNCHANGED seekVars
    /\ UNCHANGED sendVars
    /\ UNCHANGED sockVars
    /\ UNCHANGED urlVars
    /\ UNCHANGED httpVars
    /\ UNCHANGED streamVars
    /\ UNCHANGED concVars

TagTimeGet ==
  /\ cOp = "set"
  /\ cOp' = "get"
  /\ cOut' = tagTimeGet(tag.data, flvSigned)
  /\ UNCHANGED <<cArg, cMeta>>
  /\ UNCHANGED flvVars
  /\ UNCHANGED bufVars
  /\ UNCHANGED mp4Vars
  /\ UNCHANGED seekVars
  /\ UNCHANGED sendVars
  /\ UNCHANGED sockVars
  /\ UNCHANGED urlVars
  /\ UNCHANGED httpVars
  /\ UNCHANGED streamVars
  /\ UNCHANGED concVars

TimeNext == TagTimeSet \/ TagTimeGet

(***************************************************************************)
(* The FLV <-> DTSC conversion: a loaded audio or video tag is converted   *)
(* with toJSON; where that gave a packet, DTSCLoader makes a tag of it     *)
(* and the tag is converted again.                                         *)
(***************************************************************************)
ConvPayloads == SeqsUpTo({16, 18, 144}, MaxPayload)

\* data[4..7] of the tags converted.
ConvTimes == {<<0, 0, 0, 0>>, <<0, 0, 7, 0>>, <<0, 0, 128, 0>>, <<1, 2, 3, 128>>}

\* data[13..15] of the H264 tags converted.
ConvOffsets == {<<0, 0, 0>>, <<0, 0, 128>>, <<255, 255, 251>>}

\* MP3, Nelly: the audio byte and the payload.  AAC: 0xAF, the packet type.
ConvAudioBodies ==
  {<<a>> \o x : a \in {47, 110}, x \in ConvPayloads}
    \cup {<<175, k>> \o x : k \in {0, 1}, x \in ConvPayloads}

\* H263 and VP6 frames and an H263 info frame; H264: the frame type, the
\* packet type, the composition offset.
ConvVideoBodies ==
  {<<v>> \o x : v \in {18, 20, 36, 82}, x \in ConvPayloads}
    \cup {<<v, k>> \o o \o x : v \in {23, 39, 55, 71}, k \in {0, 1, 2},
                                o \in ConvOffsets, x \in ConvPayloads}

\* The Tag after MemLoader has loaded a tag of the given type, time and body.
LoadedTag(type, time, body) ==
  LET d == <<type, 0, Len(body) \div 256, Len(body) % 256>> \o time \o <<0, 0, 0>>
             \o body \o <<0, 0, 0, (Len(body) + 11) % 256>>
  IN  [data |-> d, len |-> Len(d), buf |-> Len(d), sofar |-> 0, done |-> TRUE,
       isKeyframe |-> (type = 9 /\ body[1] \div 16 = 1)]

ConvTags ==
  {LoadedTag(8, tm, b) : tm \in ConvTimes, b \in ConvAudioBodies}
    \cup {LoadedTag(9, tm, b) : tm \in ConvTimes, b \in ConvVideoBodies}

\* The metadata after a script-data tag without recognised keys.
ScriptMeta ==
  [track1 |-> [trackid |-> 1, type |-> "video", length |-> 0, width |-> 0,
               height |-> 0, fpks |-> 0, bps |-> 0, keyms |-> 0, keyvar |-> 0],
   track2 |-> JNull]

ConvInit ==
  /\ tag \in ConvTags
  /\ Parse_Error = FALSE
  /\ Header = DefaultHeader
  /\ flvSigned \in BOOLEAN
  /\ flvIn = <<>>
  /\ flvOff = 0
  /\ flvS = 0
  /\ flvP = 0
  /\ flvStart = 0
  /\ flvLast = NoLoad
  /\ cOp = "none"
  /\ cArg = NoWord
  /\ cOut = NoWord
  /\ cMeta \in {NoMeta, ScriptMeta}

\* toJSON on the loaded tag.
ConvToJSON ==
  /\ cOp = "none"
  /\ LET r == toJSON(tag, cMeta, flvSigned)
     IN  /\ cOut' = r.pack
         /\ cMeta' = r.metadata
  /\ cOp' = "toJSON"
  /\ UNCHANGED cArg
  /\ UNCHANGED flvVars
  /\ UNCHANGED bufVars
  /\ UNCHANGED mp4Vars
  /\ UNCHANGED seekVars
  /\ UNCHANGED sendVars
  /\ UNCHANGED sockVars
  /\ UNCHANGED urlVars
  /\ UNCHANGED httpVars
  /\ UNCHANGED streamVars
  /\ UNCHANGED concVars

\* DTSCLoader on the packet toJSON returned and the metadata it filled.
ConvDTSCLoader ==
  /\ cOp = "toJSON"
  /\ cOut # JNull
  /\ \E ok \in BOOLEAN :
       LET o == DTSCLoader(tag, [packet |-> cOut, metadata |-> cMeta], ok)
       IN  /\ tag' = o.t
           /\ cOp' = IF o.ret THEN "DTSCLoader" ELSE "failed"
  /\ cArg' = [packet |-> cOut, metadata |-> cMeta]
  /\ UNCHANGED <<cOut, cMeta>>
  /\ UNCHANGED <<Parse_Error, Header, flvSigned, flvIn, flvOff, flvS, flvP,
                 flvStart, flvLast>>
  /\ UNCHANGED bufVars
  /\ UNCHANGED mp4Vars
  /\ UNCHANGED seekVars
  /\ UNCHANGED sendVars
  /\ UNCHANGED sockVars
  /\ UNCHANGED urlVars
  /\ UNCHANGED httpVars
  /\ UNCHANGED streamVars
  /\ UNCHANGED concVars

\* toJSON on the tag DTSCLoader made, with the same metadata or with new
\* metadata.
ConvToJSONAgain ==
  /\ cOp = "DTSCLoader"
  /\ \E m \in {cMeta, NoMeta} :
       LET r == toJSON(tag, m, flvSigned)
       IN  /\ cOut' = r.pack
           /\ cMeta' = r.metadata
  /\ cOp' = "again"
  /\ UNCHANGED cArg
  /\ UNCHANGED flvVars
  /\ UNCHANGED bufVars
  /\ UNCHANGED mp4Vars
  /\ UNCHANGED seekVars
  /\ UNCHANGED sendVars
  /\ UNCHANGED sockVars
  /\ UNCHANGED urlVars
  /\ UNCHANGED httpVars
  /\ UNCHANGED streamVars
  /\ UNCHANGED concVars

ConvNext == ConvToJSON \/ ConvDTSCLoader \/ ConvToJSONAgain

(***************************************************************************)
(* The parser fed from a string buffer: the bytes of a message, and of     *)
(* what follows it, are appended to the buffer piece by piece, and Read is *)
(* called on the buffer until it returns true.                             *)
(***************************************************************************)
\* " HTTP/1.1", a Host header and the empty line.
RequestTail == <<32, 72, 84, 84, 80, 47, 49, 46, 49, 13, 10, 72, 111, 115, 116, 58, 32, 104, 13, 10, 13, 10>>

\* A GET request with a query string, and the variables the query holds.
HttpRequest(url, path, vs) ==
  [NoInput EXCEPT !.msg = <<71, 69, 84, 32>> \o url \o RequestTail,
                  !.kind = "request", !.url = url, !.path = path, !.vars = vs,
                  !.complete = TRUE]

HttpRequests ==
  { HttpRequest(<<47, 120, 63, 97, 61, 49, 38, 98, 61, 37, 50, 48>>, <<47, 120>>, MapSet(MapSet(EmptyMap, <<97>>, <<49>>), <<98>>, <<32>>)),
    HttpRequest(<<47, 121, 63, 107, 37, 52, 49, 61, 118, 43, 119, 38, 110>>, <<47, 121>>, MapSet(MapSet(EmptyMap, <<107, 65>>, <<118, 32, 119>>), <<110>>, <<>>)) }

\* The status line and the headers of a chunked response, and the empty line.
ChunkedHead ==
  <<72, 84, 84, 80, 47, 49, 46, 49, 32, 50, 48, 48, 32, 79, 75, 13, 10, 84, 114, 97, 110, 115, 102, 101, 114, 45, 69, 110, 99, 111, 100, 105, 110, 103, 58, 32, 99, 104, 117, 110, 107, 101, 100, 13, 10, 13, 10>>

\* A chunked response as Chunkify sends it, with or without its last chunk.
HttpChunked(chunks, complete) ==
  [NoInput EXCEPT !.msg = ChunkedHead
                            \o Concat([i \in 1..Len(chunks) |-> Chunkify(chunks[i])])
                            \o (IF complete THEN Chunkify(<<>>) ELSE <<>>),
                  !.kind = "chunked", !.chunks = chunks, !.complete = complete]

HttpChunkLists == { <<<<104, 101, 108, 108, 111>>>>, <<<<97, 10>>, <<98, 99, 100, 101, 102, 103, 104, 105, 106, 107>>>>, <<>> }

\* The same with the last chunk as RFC 7230 writes it: "0", CR LF, CR LF.
HttpChunkedPlain(chunks) ==
  [NoInput EXCEPT !.msg = ChunkedHead
                            \o Concat([i \in 1..Len(chunks) |-> Chunkify(chunks[i])])
                            \o <<48, 13, 10, 13, 10>>,
                  !.kind = "chunked", !.chunks = chunks, !.complete = TRUE]

HttpResponses ==
  {HttpChunked(c, TRUE) : c \in HttpChunkLists}
    \cup {HttpChunked(<<<<104, 101, 108, 108, 111>>>>, FALSE),
          HttpChunkedPlain(<<<<104, 101, 108, 108, 111>>>>)}


\* A POST request with a Content-Length header and a body of that length.
HttpPost(body) ==
  [NoInput EXCEPT !.msg = <<80, 79, 83, 84, 32, 47, 112, 32, 72, 84, 84, 80, 47, 49, 46, 49, 13, 10, 67, 111, 110, 116, 101, 110, 116, 45, 76, 101, 110, 103, 116, 104, 58, 32>> \o ToDec(Len(body))
                            \o <<13, 10, 13, 10>> \o body,
                  !.kind = "post", !.length = Len(body), !.complete = TRUE]

HttpPosts == { HttpPost(<<97, 61, 98>>), HttpPost(<<97, 61, 98, 38, 99, 61, 100>>) }

\* What follows the message in the byte stream.
HttpFollowing == { <<>>, <<71, 10>> }

HttpInputs ==
  {[m EXCEPT !.next = x] : m \in HttpRequests \cup HttpResponses \cup HttpPosts,
                           x \in HttpFollowing}

AllInput == hIn.msg \o hIn.next

HttpInit ==
  /\ parser \in {NewParser, [NewParser EXCEPT !.headerOnly = TRUE]}
  /\ strbuf = <<>>
  /\ hIn \in HttpInputs
  /\ hApp = 0
  /\ hLast = NoRead
  /\ conn = <<>>

\* The next piece of the input arrives and is appended to the buffer.
HttpAppend ==
  /\ hApp < Len(AllInput)
  /\ \E n \in 1..Min(MaxPiece, Len(AllInput) - hApp) :
       /\ strbuf' = strbuf \o SubSeq(AllInput, hApp + 1, hApp + n)
       /\ hApp' = hApp + n
  /\ UNCHANGED <<parser, hIn, hLast, conn>>
  /\ UNCHANGED bufVars
  /\ UNCHANGED mp4Vars
  /\ UNCHANGED seekVars
  /\ UNCHANGED sendVars
  /\ UNCHANGED sockVars
  /\ UNCHANGED urlVars
  /\ UNCHANGED streamVars
  /\ UNCHANGED concVars
  /\ UNCHANGED flvVars
  /\ UNCHANGED convVars

\* Read(strbuf), as long as no call has returned true.
HttpRead ==
  /\ ~hLast.ret
  /\ LET r == Read(parser, strbuf)
     IN  /\ parser' = r.p
         /\ strbuf' = r.HTTPbuffer
         /\ hLast' = [ret |-> r.ret,
                      posts |-> hLast.posts + (IF r.post THEN 1 ELSE 0),
                      steps |-> hLast.steps
                                  + (IF r.HTTPbuffer # strbuf THEN 1 ELSE 0),
                      fed |-> FALSE]
  /\ UNCHANGED <<hIn, hApp, conn>>
  /\ UNCHANGED bufVars
  /\ UNCHANGED mp4Vars
  /\ UNCHANGED seekVars
  /\ UNCHANGED sendVars
  /\ UNCHANGED sockVars
  /\ UNCHANGED urlVars
  /\ UNCHANGED streamVars
  /\ UNCHANGED concVars
  /\ UNCHANGED flvVars
  /\ UNCHANGED convVars

HttpNext == HttpAppend \/ HttpRead

(***************************************************************************)
(* The parser fed from a connection: the bytes of a chunked response, and  *)
(* of what follows it, arrive piece by piece in conn.Received(), and       *)
(* Read(conn) is called until it returns true.                             *)
(***************************************************************************)
ConnInputs ==
  {[m EXCEPT !.next = x] : m \in HttpResponses, x \in HttpFollowing}

ConnInit ==
  /\ parser \in {NewParser, [NewParser EXCEPT !.headerOnly = TRUE]}
  /\ strbuf = <<>>
  /\ hIn \in ConnInputs
  /\ hApp = 0
  /\ hLast = NoRead
  /\ conn = <<>>

\* The next piece of the input arrives, Read having been called after the
\* piece before it: Received().append(piece).
ConnAppend ==
  /\ hApp < Len(AllInput)
  /\ ~hLast.fed
  /\ Len(conn) < MaxParts
  /\ \E n \in 1..Min(MaxPiece, Len(AllInput) - hApp) :
       /\ conn' = BufferAppend(conn, SubSeq(AllInput, hApp + 1, hApp + n))
       /\ hApp' = hApp + n
  /\ hLast' = [hLast EXCEPT !.fed = TRUE]
  /\ UNCHANGED <<parser, strbuf, hIn>>
  /\ UNCHANGED bufVars
  /\ UNCHANGED mp4Vars
  /\ UNCHANGED seekVars
  /\ UNCHANGED sendVars
  /\ UNCHANGED sockVars
  /\ UNCHANGED urlVars
  /\ UNCHANGED streamVars
  /\ UNCHANGED concVars
  /\ UNCHANGED flvVars
  /\ UNCHANGED convVars

\* The whole input arrives in one piece.
ConnAppendAll ==
  /\ hApp = 0
  /\ conn' = BufferAppend(conn, AllInput)
  /\ hApp' = Len(AllInput)
  /\ hLast' = [hLast EXCEPT !.fed = TRUE]
  /\ UNCHANGED <<parser, strbuf, hIn>>
  /\ UNCHANGED bufVars
  /\ UNCHANGED mp4Vars
  /\ UNCHANGED seekVars
  /\ UNCHANGED sendVars
  /\ UNCHANGED sockVars
  /\ UNCHANGED urlVars
  /\ UNCHANGED streamVars
  /\ UNCHANGED concVars
  /\ UNCHANGED flvVars
  /\ UNCHANGED convVars

\* Read(conn), as long as no call has returned true.
ConnRead ==
  /\ ~hLast.ret
  /\ \E nl \in BOOLEAN :
       LET r == ReadConn(parser, conn, nl)
       IN  /\ parser' = r.p
           /\ conn' = r.d
           /\ hLast' = [ret |-> r.ret,
                        posts |-> hLast.posts + (IF r.post THEN 1 ELSE 0),
                        steps |-> hLast.steps
                                    + (IF r.p # parser THEN 1 ELSE 0),
                        fed |-> FALSE]
  /\ UNCHANGED <<strbuf, hIn, hApp>>
  /\ UNCHANGED bufVars
  /\ UNCHANGED mp4Vars
  /\ UNCHANGED seekVars
  /\ UNCHANGED sendVars
  /\ UNCHANGED sockVars
  /\ UNCHANGED urlVars
  /\ UNCHANGED streamVars
  /\ UNCHANGED concVars
  /\ UNCHANGED flvVars
  /\ UNCHANGED convVars

ConnNext == ConnAppend \/ ConnAppendAll \/ ConnRead

(***************************************************************************)
(* A first line that is not a start line, followed by a request.          *)
(***************************************************************************)
\* The request that follows the line: PUT /z HTTP/1.0, a header, the empty
\* line.
GoodRequest == <<80, 85, 84, 32, 47, 122, 32, 72, 84, 84, 80, 47, 49, 46, 48, 13, 10, 72, 111, 115, 116, 58, 32, 104, 13, 10, 13, 10>>

HttpBadLine(bad) ==
  [NoInput EXCEPT !.msg = bad \o GoodRequest, !.kind = "badline", !.bad = bad,
                  !.complete = TRUE]

\* Lines of no, one and two tokens.
ShortLines == { <<13, 10>>, <<71, 69, 84, 13, 10>>, <<71, 69, 84, 32, 47, 97, 63, 107, 61, 118, 13, 10>>, <<72, 84, 84, 80, 47, 49, 46, 48, 32, 50, 48, 48, 10>>, <<32, 10>> }

\* Lines of four tokens.
LongLines == { <<71, 69, 84, 32, 47, 97, 63, 107, 61, 118, 32, 72, 84, 84, 80, 47, 49, 46, 48, 32, 120, 13, 10>> }

BadLineInputs == {HttpBadLine(b) : b \in ShortLines \cup LongLines}

LineInit ==
  /\ parser = NewParser
  /\ strbuf = <<>>
  /\ hIn \in BadLineInputs
  /\ hApp = 0
  /\ hLast = NoRead
  /\ conn = <<>>

(***************************************************************************)
(* Messages written with CR LF or with LF alone as the line ending.  A     *)
(* message is a sequence of segments: lines, which get the line ending,    *)
(* and raw bytes (a body, the data of a chunk).                            *)
(***************************************************************************)
Line(s) == [line |-> TRUE, s |-> s]

Raw(s) == [line |-> FALSE, s |-> s]

\* s without its carriage returns.
NoCR(s) == SelectSeq(s, LAMBDA c : c # 13)

\* The bytes of the segments with the line ending eol; with strip, the
\* lines are written without the carriage returns they hold.
Build(segs, eol, strip) ==
  Concat([i \in 1..Len(segs) |->
            IF segs[i].line
            THEN (IF strip THEN NoCR(segs[i].s) ELSE segs[i].s) \o eol
            ELSE segs[i].s])

\* The lines of the segments that hold a carriage return.
InnerCR(segs) ==
  SelectSeq(segs, LAMBDA x : x.line /\ Find(x.s, 13, 1) # 0)

HttpEol(segs, eol) ==
  [NoInput EXCEPT !.msg = Build(segs, eol, FALSE),
                  !.alt = Build(segs, <<10>>, TRUE),
                  !.bad = IF InnerCR(segs) = <<>> THEN <<>> ELSE InnerCR(segs)[1].s,
                  !.kind = "eol", !.complete = TRUE]

EolMessages ==
  { << Line(<<71, 69, 84, 32, 47, 120, 63, 97, 61, 49, 32, 72, 84, 84, 80, 47, 49, 46, 49>>), Line(<<72, 111, 115, 116, 58, 32, 104>>), Line(<<>>) >>,
    << Line(<<80, 79, 83, 84, 32, 47, 112, 32, 72, 84, 84, 80, 47, 49, 46, 48>>), Line(<<67, 111, 110, 116, 101, 110, 116, 45, 76, 101, 110, 103, 116, 104, 58, 32, 51>>), Line(<<>>), Raw(<<97, 61, 98>>) >>,
    << Line(<<72, 84, 84, 80, 47, 49, 46, 49, 32, 50, 48, 48, 32, 79, 75>>), Line(<<84, 114, 97, 110, 115, 102, 101, 114, 45, 69, 110, 99, 111, 100, 105, 110, 103, 58, 32, 99, 104, 117, 110, 107, 101, 100>>), Line(<<>>),
       Line(<<53>>), Raw(<<104, 101, 108, 108, 111>>), Line(<<>>), Line(<<48>>), Line(<<>>) >>,
    << Line(<<71, 69, 84, 32, 47, 121, 32, 72, 84, 84, 80, 47, 49, 46, 49>>), Line(<<88, 58, 97, 13, 98>>), Line(<<>>) >> }

EolInputs == {HttpEol(segs, eol) : segs \in EolMessages, eol \in {<<13, 10>>, <<10>>}}

EolInit ==
  /\ parser = NewParser
  /\ strbuf = <<>>
  /\ hIn \in EolInputs
  /\ hApp = 0
  /\ hLast = NoRead
  /\ conn = <<>>

(***************************************************************************)
(* urlencode and urlunescape called one after the other.                   *)
(***************************************************************************)
\* Every string of one byte, and the longer strings of the bytes that the
\* two functions treat in a way of their own.
UrlStrings ==
  SeqsUpTo({37, 43, 32, 50, 48, 97, 128, 255}, MaxUrlLen) \cup {<<b>> : b \in 0..255}

UrlInit ==
  /\ uOp = "none"
  /\ uArg \in UrlStrings
  /\ uOut = <<>>

\* The tag of the other specifications, in a build with either kind of char.
UrlBuild ==
  /\ tag = NewTag
  /\ Parse_Error = FALSE
  /\ Header = DefaultHeader
  /\ flvSigned \in BOOLEAN
  /\ flvIn = <<>>
  /\ flvOff = 0
  /\ flvS = 0
  /\ flvP = 0
  /\ flvStart = 0
  /\ flvLast = NoLoad

UrlEncode ==
  /\ uOp = "none"
  /\ uOp' = "urlencode"
  /\ uOut' = urlencode(uArg, flvSigned)
  /\ UNCHANGED uArg
  /\ UNCHANGED bufVars
  /\ UNCHANGED mp4Vars
  /\ UNCHANGED seekVars
  /\ UNCHANGED sendVars
  /\ UNCHANGED sockVars
  /\ UNCHANGED streamVars
  /\ UNCHANGED concVars
  /\ UNCHANGED flvVars
  /\ UNCHANGED convVars
  /\ UNCHANGED httpVars

UrlUnescape ==
  /\ uOp = "urlencode"
  /\ uOp' = "urlunescape"
  /\ uOut' = urlunescape(uOut)
  /\ UNCHANGED uArg
  /\ UNCHANGED bufVars
  /\ UNCHANGED mp4Vars
  /\ UNCHANGED seekVars
  /\ UNCHANGED sendVars
  /\ UNCHANGED sockVars
  /\ UNCHANGED streamVars
  /\ UNCHANGED concVars
  /\ UNCHANGED flvVars
  /\ UNCHANGED convVars
  /\ UNCHANGED httpVars

UrlNext == UrlEncode \/ UrlUnescape

(***************************************************************************)
(* A Connection, made by one of its constructors, on which iwrite, iread   *)
(* and close are called.                                                   *)
(***************************************************************************)
Connections ==
  {ConnectionOfSocket(s) : s \in {-1, 3}}
    \cup {ConnectionOfPipes(w, r) : w \in {-1, 4}, r \in {-1, 5}}

SockInit ==
  /\ cTo \in Connections
  /\ cFrom = NoConnection
  /\ wire = <<>>
  /\ fdLog = <<>>
  /\ kOp = NoOp
  /\ px = NoProxy

\* What a call of len bytes may get from the system: nothing is asked of it
\* where the Connection is not connected or len is less than one.
Outcomes(c, len) ==
  IF ~connected(c) \/ len < 1 THEN {[r |-> 0, errno |-> "none"]}
  ELSE {[r |-> -1, errno |-> e] : e \in Errnos}
         \cup {[r |-> n, errno |-> "none"] : n \in 0..len}

\* iwrite(buffer, len)
SockIwrite ==
  /\ kOp.n < MaxSockOps
  /\ \E len \in 0..MaxSockLen : \E o \in Outcomes(cTo, len) :
       LET w == iwrite(cTo, len, o.r, o.errno)
       IN  /\ cTo' = w.c
           /\ fdLog' = fdLog \o w.closed
           /\ wire' = wire \o [k \in 1..w.ret |-> CH]
           /\ kOp' = [NoOp EXCEPT !.name = "iwrite", !.pre = cTo, !.len = len,
                                  !.r = o.r, !.errno = o.errno, !.ret = w.ret,
                                  !.start = Len(fdLog), !.n = kOp.n + 1]
  /\ UNCHANGED <<cFrom, px>>
  /\ UNCHANGED bufVars
  /\ UNCHANGED mp4Vars
  /\ UNCHANGED seekVars
  /\ UNCHANGED sendVars
  /\ UNCHANGED streamVars
  /\ UNCHANGED concVars
  /\ UNCHANGED flvVars
  /\ UNCHANGED convVars
  /\ UNCHANGED httpVars
  /\ UNCHANGED urlVars

\* iread(buffer, len)
SockIread ==
  /\ kOp.n < MaxSockOps
  /\ \E len \in 0..MaxSockLen : \E o \in Outcomes(cTo, len) :
       LET w == iread(cTo, len, o.r, o.errno)
       IN  /\ cTo' = w.c
           /\ fdLog' = fdLog \o w.closed
           /\ kOp' = [NoOp EXCEPT !.name = "iread", !.pre = cTo, !.len = len,
                                  !.r = o.r, !.errno = o.errno, !.ret = w.ret,
                                  !.start = Len(fdLog), !.n = kOp.n + 1]
  /\ UNCHANGED <<cFrom, wire, px>>
  /\ UNCHANGED bufVars
  /\ UNCHANGED mp4Vars
  /\ UNCHANGED seekVars
  /\ UNCHANGED sendVars
  /\ UNCHANGED streamVars
  /\ UNCHANGED concVars
  /\ UNCHANGED flvVars
  /\ UNCHANGED convVars
  /\ UNCHANGED httpVars
  /\ UNCHANGED urlVars

\* close()
SockClose ==
  /\ kOp.n < MaxSockOps
  /\ cTo' = close(cTo).c
  /\ fdLog' = fdLog \o close(cTo).closed
  /\ kOp' = [NoOp EXCEPT !.name = "close", !.pre = cTo, !.start = Len(fdLog),
                         !.n = kOp.n + 1]
  /\ UNCHANGED <<cFrom, wire, px>>
  /\ UNCHANGED bufVars
  /\ UNCHANGED mp4Vars
  /\ UNCHANGED seekVars
  /\ UNCHANGED sendVars
  /\ UNCHANGED streamVars
  /\ UNCHANGED concVars
  /\ UNCHANGED flvVars
  /\ UNCHANGED convVars
  /\ UNCHANGED httpVars
  /\ UNCHANGED urlVars

SockNext == SockIwrite \/ SockIread \/ SockClose

(***************************************************************************)
(* A Parser used to answer requests over a connected socket: headers are   *)
(* set, StartResponse is called for a request, the body is sent with       *)
(* Chunkify, and Clean may be called in between.                           *)
(***************************************************************************)
RequestProtocols == {<<72, 84, 84, 80, 47, 49, 46, 49>>, <<72, 84, 84, 80, 47, 49, 46, 48>>, <<72, 84, 84, 80, 47, 49, 46, 49, 48>>, <<49, 46, 49>>}

\* The buffers given to Chunkify, one of them of BigSize bytes.
ChunkDatas == {<<>>, <<97>>, <<98, 99, 10>>, <<0 - BigSize>>}

RespInit ==
  /\ cTo = ConnectionOfSocket(3)
  /\ cFrom = NoConnection
  /\ wire = <<>>
  /\ fdLog = <<>>
  /\ kOp = NoOp
  /\ px = NoProxy

\* What an operation on the Parser leaves of the Connection.
RespKeeps(k, name, request, start, datas) ==
  /\ cTo' = k.c
  /\ wire' = k.wire
  /\ fdLog' = fdLog \o k.closed
  /\ kOp' = [NoOp EXCEPT !.name = name, !.pre = cTo, !.len = Len(wire),
                         !.req = request, !.start = start, !.datas = datas,
                         !.had = <<84, 114, 97, 110, 115, 102, 101, 114, 45, 69, 110, 99, 111, 100, 105, 110, 103>> \in DOMAIN parser.headers,
                         !.n = kOp.n + 1]
  /\ UNCHANGED <<cFrom, px>>
  /\ UNCHANGED <<strbuf, hIn, hApp, hLast, conn>>
  /\ UNCHANGED bufVars
  /\ UNCHANGED mp4Vars
  /\ UNCHANGED seekVars
  /\ UNCHANGED sendVars
  /\ UNCHANGED streamVars
  /\ UNCHANGED concVars
  /\ UNCHANGED flvVars
  /\ UNCHANGED convVars
  /\ UNCHANGED urlVars

\* The Connection as the senders take it.
Sink == [c |-> cTo, wire |-> wire, closed |-> <<>>, sizes |-> <<>>]

\* SetHeader("Server", "m")
RespSetHeader ==
  /\ kOp.n < MaxRespOps
  /\ <<83, 101, 114, 118, 101, 114>> \notin DOMAIN parser.headers
  /\ parser' = [parser EXCEPT !.headers = SetHeader(@, <<83, 101, 114, 118, 101, 114>>, <<109>>)]
  /\ RespKeeps(Sink, "SetHeader", kOp.req, kOp.start, kOp.datas)

\* StartResponse("200", "OK", request, conn)
RespStart ==
  /\ kOp.n < MaxRespOps
  /\ \E request \in RequestProtocols :
       LET s == StartResponse(parser, <<50, 48, 48>>, <<79, 75>>, request, Sink)
       IN  /\ parser' = s.p
           /\ RespKeeps(s.k, "StartResponse", request, Len(wire), <<>>)

\* Chunkify(data, size, conn), after a StartResponse.
RespChunkify ==
  /\ kOp.n < MaxRespOps
  /\ kOp.req # <<>>
  /\ \E d \in ChunkDatas :
       /\ parser' = parser
       /\ RespKeeps(ChunkifyTo(parser, d, DataSize(d), Sink), "Chunkify",
                    kOp.req, kOp.start, Append(kOp.datas, d))

\* Clean()
RespClean ==
  /\ kOp.n < MaxRespOps
  /\ parser' = Clean(parser)
  /\ RespKeeps(Sink, "Clean", <<>>, 0, <<>>)

RespNext == RespSetHeader \/ RespStart \/ RespChunkify \/ RespClean

(***************************************************************************)
(* Proxy(from, to): the Parser has read the headers of a response from the *)
(* source, whose body arrives piece by piece, and pumps the body to the    *)
(* sink.  Either Connection may fail.                                      *)
(***************************************************************************)
LengthHead(n) == <<72, 84, 84, 80, 47, 49, 46, 49, 32, 50, 48, 48, 32, 79, 75, 13, 10, 67, 111, 110, 116, 101, 110, 116, 45, 76, 101, 110, 103, 116, 104, 58, 32>> \o ToDec(n) \o <<13, 10, 13, 10>>

\* A body of length bytes, or the first bytes of one, and what follows it.
ProxyLength(body, following, length) ==
  [NoInput EXCEPT !.msg = body, !.next = following, !.kind = "proxy-length",
                  !.length = length]

\* A chunked body with its last chunk and final CR LF, and what follows it.
ProxyChunked(chunks, following) ==
  [NoInput EXCEPT !.msg = Concat([i \in 1..Len(chunks) |-> Chunkify(chunks[i])])
                            \o <<48, 13, 10, 13, 10>>,
                  !.next = following, !.kind = "proxy-chunked", !.chunks = chunks]

ProxyInputs ==
  {ProxyLength(<<97, 98, 10, 99>>, <<120, 10, 121>>, 4), ProxyLength(<<97, 98>>, <<>>, 3),
   ProxyLength(<<>>, <<113>>, 0)}
    \cup {ProxyChunked(<<<<48, 13, 10>>>>, <<120, 10>>), ProxyChunked(<<<<97, 10>>, <<48, 49, 50, 51, 52, 53, 54, 55, 56, 57>>>>, <<120, 10>>),
          ProxyChunked(<<>>, <<>>)}

\* The Parser after Read returned true for the headers alone.
ProxyParser(in) ==
  Read([NewParser EXCEPT !.headerOnly = TRUE],
       IF in.kind = "proxy-chunked" THEN ChunkedHead ELSE LengthHead(in.length)).p

ProxyInit ==
  /\ hIn \in ProxyInputs
  /\ parser = ProxyParser(hIn)
  /\ strbuf = <<>>
  /\ hApp = 0
  /\ hLast = NoRead
  /\ conn = <<>>
  /\ cTo = ConnectionOfSocket(3)
  /\ cFrom = ConnectionOfSocket(6)
  /\ wire = <<>>
  /\ fdLog = <<>>
  /\ kOp = NoOp
  /\ px = NoProxy

\* The bytes of the source that its descriptor has not given yet.
Incoming == SubSeq(AllInput, hApp + 1, Len(AllInput))

\* What a recv on the source may return: a few of the bytes to come or all
\* of them, none for now, the end of the stream after the last byte, or an
\* error.
RecvOutcomes ==
  {[r |-> n, errno |-> "none"] :
     n \in (1..Min(MaxPiece, Len(Incoming))) \cup ({Len(Incoming)} \ {0})}
    \cup {[r |-> -1, errno |-> e] : e \in {"EWOULDBLOCK", "ECONNRESET"}}
    \cup (IF Incoming = <<>> THEN {[r |-> 0, errno |-> "none"]} ELSE {})

\* What the sends of one turn may get from the sink: all bytes taken, a
\* broken pipe, or one byte taken and the connection reset.
SinkOutcomes ==
  {<<>>, <<[r |-> -1, errno |-> "EPIPE"]>>,
   <<[r |-> 1, errno |-> "none"], [r |-> -1, errno |-> "ECONNRESET"]>>}

ProxyOthers ==
  /\ UNCHANGED <<strbuf, hIn, hLast>>
  /\ UNCHANGED bufVars
  /\ UNCHANGED mp4Vars
  /\ UNCHANGED seekVars
  /\ UNCHANGED sendVars
  /\ UNCHANGED streamVars
  /\ UNCHANGED concVars
  /\ UNCHANGED flvVars
  /\ UNCHANGED convVars
  /\ UNCHANGED urlVars

\* What a call on the source, which left s, changes.
SourceAfter(s) ==
  /\ cFrom' = s.c
  /\ conn' = s.d
  /\ hApp' = hApp + s.took

\* What a call on the sink, which left k, changes, closed being what the
\* source closed.
SinkAfter(k, closed) ==
  /\ cTo' = k.c
  /\ wire' = k.wire
  /\ fdLog' = fdLog \o closed \o k.closed

\* from.spool(), called before Proxy is, as long as few parts wait.
ProxySpool ==
  /\ px.pc = "idle"
  /\ Len(conn) < MaxParts
  /\ \E o \in RecvOutcomes :
       /\ SourceAfter(spool(cFrom, conn, Incoming, o))
       /\ fdLog' = fdLog \o spool(cFrom, conn, Incoming, o).closed
  /\ UNCHANGED <<parser, cTo, wire, kOp, px>>
  /\ ProxyOthers

\* Proxy(from, to) up to its loop: SendResponse("200", "OK", to).
ProxyStart ==
  /\ px.pc = "idle"
  /\ parser' = SendResponse(parser, <<50, 48, 48>>, <<79, 75>>, Sink).p
  /\ SinkAfter(SendResponse(parser, <<50, 48, 48>>, <<79, 75>>, Sink).k, <<>>)
  /\ kOp' = [NoOp EXCEPT !.name = "Proxy", !.pre = cTo, !.start = Len(wire')]
  /\ px' = [pc |-> IF parser.getChunks THEN "chunks" ELSE "body",
            proxyingChunk |-> 0,
            bodyLen |-> IF parser.getChunks THEN 0 ELSE parser.length]
  /\ UNCHANGED <<cFrom, conn, hApp>>
  /\ ProxyOthers

\* What a turn of the chunked mode, which left t, changes.
ChunksAfter(t) ==
  /\ parser' = t.p
  /\ SourceAfter(t)
  /\ SinkAfter(t.k, t.closed)
  /\ px' = [px EXCEPT !.proxyingChunk = t.proxyingChunk,
                      !.pc = IF t.returned THEN "done" ELSE @]

\* What a turn of the Content-Length mode, which left t, changes.
BodyAfter(t) ==
  /\ SourceAfter(t)
  /\ SinkAfter(t.k, t.closed)
  /\ px' = [px EXCEPT !.bodyLen = t.bodyLen]

\* Proxy, if (getChunks): the test of the loop and one turn of it.
ProxyChunks ==
  /\ px.pc = "chunks"
  /\ IF connected(cTo) /\ connected(cFrom)
     THEN \E o \in RecvOutcomes : \E nl \in BOOLEAN : \E os \in SinkOutcomes :
            ChunksAfter(ProxyChunkTurn(parser, conn, cFrom, Incoming, Sink,
                                       px.proxyingChunk, o, nl, os))
     ELSE /\ px' = [px EXCEPT !.pc = "done"]
          /\ UNCHANGED <<parser, conn, cFrom, hApp, cTo, wire, fdLog>>
  /\ UNCHANGED kOp
  /\ ProxyOthers

\* Proxy, the Content-Length mode: the test of the loop and one turn of it.
ProxyBody ==
  /\ px.pc = "body"
  /\ IF px.bodyLen > 0 /\ connected(cTo) /\ connected(cFrom)
     THEN \E o \in RecvOutcomes : \E os \in SinkOutcomes :
            BodyAfter(ProxyBodyTurn(conn, cFrom, Incoming, Sink, px.bodyLen, o, os))
     ELSE /\ px' = [px EXCEPT !.pc = "done"]
          /\ UNCHANGED <<conn, cFrom, hApp, cTo, wire, fdLog>>
  /\ UNCHANGED <<parser, kOp>>
  /\ ProxyOthers

ProxyNext == ProxySpool \/ ProxyStart \/ ProxyChunks \/ ProxyBody

(***************************************************************************)
(* A Connection with its send buffer and its receive buffer (conn): Send,  *)
(* SendNow and spool are called on it, the system taking and giving as     *)
(* many bytes as it likes.                                                 *)
(***************************************************************************)
\* A receive buffer of more parts than spool reads into.
ManyParts == [i \in 1..(SpoolMax + 1) |-> <<NL>>]

\* The Connections and the flags of their descriptors.
SendConnections ==
  {[c |-> ConnectionOfSocket(3), f |-> [fd \in {3} |-> fl]] :
     fl \in {{}, {"O_NONBLOCK"}, {"O_NONBLOCK", "O_APPEND"}}}
    \cup {[c |-> ConnectionOfPipes(4, 5),
            f |-> [fd \in {4, 5} |-> IF fd = 4 THEN {"O_NONBLOCK"} ELSE {}]]}

SendInit ==
  /\ \E x \in SendConnections : cTo = x.c /\ fdFlags = x.f
  /\ cFrom = NoConnection
  /\ wire = <<>>
  /\ fdLog = <<>>
  /\ kOp = NoOp
  /\ px = NoProxy
  /\ upbuffer = <<>>
  /\ given = <<>>
  /\ sOp = NoCall
  /\ parser = NewParser
  /\ strbuf = <<>>
  /\ hIn = NoInput
  /\ hApp = 0
  /\ hLast = NoRead
  /\ conn \in {<<>>} \cup (IF fdFlags = [fd \in {3} |-> {"O_NONBLOCK"}]
                           THEN {ManyParts} ELSE {})

\* The Connection and its send buffer before a call.
Queue ==
  [c |-> cTo, up |-> upbuffer, wire |-> wire, closed |-> <<>>, sizes |-> <<>>]

\* What a send or a write may get: all bytes taken, one taken, none taken,
\* none for now, a broken pipe, the connection reset.
TakeAll == [r |-> Huge, errno |-> "none"]
TakeOne == [r |-> 1, errno |-> "none"]
TakeZero == [r |-> 0, errno |-> "none"]
TakeNone == [r |-> -1, errno |-> "EWOULDBLOCK"]
Broken == [r |-> -1, errno |-> "EPIPE"]
Reset == [r |-> -1, errno |-> "ECONNRESET"]

\* The strings given to Send and SendNow, and a buffer of more bytes than
\* SendNow gives to one iwrite after the first.
SendDatas == {<<97>>, <<98, 10, 99>>}
LongData == <<0 - (SendNowMax + 1)>>

\* What a call, which left q, changes.
QueueAfter(q) ==
  /\ cTo' = q.c
  /\ upbuffer' = q.up
  /\ wire' = q.wire
  /\ fdLog' = fdLog \o q.closed

\* The record of a call.
Called(name, d) ==
  [NoCall EXCEPT !.name = name, !.wire = wire, !.upbuffer = upbuffer,
                 !.fdFlags = fdFlags, !.c = cTo, !.d = d, !.down = Len(BufferSize(conn)),
                 !.n = sOp.n + 1]

SendOthers ==
  /\ UNCHANGED <<cFrom, kOp, px>>
  /\ UNCHANGED <<parser, strbuf, hIn, hApp, hLast>>
  /\ UNCHANGED bufVars
  /\ UNCHANGED mp4Vars
  /\ UNCHANGED seekVars
  /\ UNCHANGED streamVars
  /\ UNCHANGED concVars
  /\ UNCHANGED flvVars
  /\ UNCHANGED convVars
  /\ UNCHANGED urlVars

\* What Send changes, q being what it left.
SendAfter(q, d) ==
  /\ QueueAfter(q)
  /\ given' = given \o d
  /\ sOp' = [Called("Send", d) EXCEPT !.sizes = q.sizes]

\* Send(data, len) on a descriptor that does not block.
SendSend ==
  /\ sOp.n < MaxSendOps
  /\ \E d \in SendDatas :
     \E osU \in {<<>>, <<TakeNone>>, <<TakeOne, TakeNone>>, <<TakeOne>>, <<Broken>>} :
     \E o \in {TakeAll, TakeOne, TakeZero, TakeNone, Reset} :
       SendAfter(Send(Queue, d, osU, o), d)
  /\ UNCHANGED <<conn, fdFlags>>
  /\ SendOthers

\* What SendNow changes, s being what it left.
SendNowAfter(s, d) ==
  /\ QueueAfter(s.q)
  /\ fdFlags' = s.f
  /\ given' = given \o d
  /\ sOp' = [Called("SendNow", d) EXCEPT !.sizes = s.q.sizes,
                                        !.drained = s.drained]

\* SendNow(data, len): the descriptor blocks during the call, so that a
\* send takes a byte at least or fails.
SendSendNow ==
  /\ sOp.n < MaxSendOps
  /\ \E osU \in {<<>>, <<TakeOne>>, <<TakeOne, Reset>>} :
       \/ \E d \in SendDatas : \E os \in {<<>>, <<TakeOne>>, <<Broken>>} :
            SendNowAfter(SendNowConnection(Queue, fdFlags, d, Len(d), osU, os), d)
       \/ \E os \in {<<>>, <<Broken>>} :
            SendNowAfter(SendNowConnection(Queue, fdFlags, LongData,
                                           DataSize(LongData), osU, os), LongData)
  /\ UNCHANGED conn
  /\ SendOthers

\* What spool changes, s being what it left.
SpoolAfter(s) ==
  /\ QueueAfter(s.q)
  /\ conn' = s.d
  /\ sOp' = [Called("spool", <<>>) EXCEPT !.ret = s.ret, !.sizes = s.q.sizes,
                                         !.reads = s.reads, !.took = s.took]

\* spool(), the descriptor having a few bytes to give or none.
SendSpool ==
  /\ sOp.n < MaxSendOps
  /\ \E incoming \in {<<>>, <<120, 10>>} :
     \E ow \in {TakeAll, TakeOne, TakeNone, Broken} :
     \E o \in {[r |-> n, errno |-> "none"] : n \in 0..Len(incoming)}
               \cup {TakeNone, Reset} :
       SpoolAfter(spoolConnection(Queue, conn, incoming, ow, o))
  /\ UNCHANGED <<fdFlags, given>>
  /\ SendOthers

SendNext == SendSend \/ SendSendNow \/ SendSpool

(***************************************************************************)
(* DTSC::seekPos: three positions are compared with each other, as a       *)
(* std::set<seekPos> does when it orders them.                             *)
(***************************************************************************)
SeekPositions ==
  [seekTime : 0..MaxSeekTime, bytePos : 0..MaxBytePos, trackID : 1..MaxSeekTrack]

SeekInit ==
  /\ spTriple \in [1..3 -> SeekPositions]
  /\ spLess = <<>>

\* Every position is compared with every position.
SeekCompare ==
  /\ spLess = <<>>
  /\ spLess' = [i \in 1..3 |-> [j \in 1..3 |-> SeekPosLess(spTriple[i], spTriple[j])]]
  /\ UNCHANGED spTriple
  /\ UNCHANGED bufVars
  /\ UNCHANGED mp4Vars
  /\ UNCHANGED streamVars
  /\ UNCHANGED concVars
  /\ UNCHANGED flvVars
  /\ UNCHANGED convVars
  /\ UNCHANGED httpVars
  /\ UNCHANGED urlVars
  /\ UNCHANGED sockVars
  /\ UNCHANGED sendVars

SeekNext == SeekCompare

(***************************************************************************)
(* MP4::DTSC2MP4Converter (lib/mp4_conv.cpp).  A track of the metadata is  *)
(* [trackid, type, keys] and a key [time, size, partsize, parts], parts    *)
(* being the sizes JSON::decodeVector gives for the key's "parts" string.  *)
(* The set keyParts is held as the sequence its iterator walks.  mp4.h and *)
(* the box classes are not among the sources: the order of keyPart and the *)
(* size of the boxes are those of the specification.                       *)
(***************************************************************************)
\* keyPart::operator<: by time, then by trackID.
KeyPartLess(a, b) ==
  \/ a.time < b.time
  \/ a.time = b.time /\ a.trackID < b.trackID

\* keyParts.insert(temp): a set keeps one of two equivalent keys.
RECURSIVE InsertKeyPart(_, _)
InsertKeyPart(s, temp) ==
  IF s = <<>> THEN <<temp>>
  ELSE IF KeyPartLess(temp, Head(s)) THEN <<temp>> \o s
  ELSE IF KeyPartLess(Head(s), temp)
  THEN <<Head(s)>> \o InsertKeyPart(Tail(s), temp)
  ELSE s

\* The loop over the keys of one track: a key of size 0 is left out.
RECURSIVE TrackKeyParts(_, _, _)
TrackKeyParts(s, trackid, keys) ==
  IF keys = <<>> THEN s
  ELSE TrackKeyParts(
         IF Head(keys).size > 0
         THEN InsertKeyPart(s, [trackID |-> trackid, size |-> Head(keys).size,
                                time |-> Head(keys).time,
                                parts |-> Head(keys).parts,
                                partsize |-> Head(keys).partsize])
         ELSE s,
         trackid, Tail(keys))

\* The loop over the tracks that fills keyParts.
RECURSIVE AllKeyParts(_, _)
AllKeyParts(s, tracks) ==
  IF tracks = <<>> THEN s
  ELSE AllKeyParts(TrackKeyParts(s, Head(tracks).trackid, Head(tracks).keys),
                   Tail(tracks))

\* tmpParts: the sum of the partsize fields of the keys of a track.
RECURSIVE tmpParts(_)
tmpParts(keys) ==
  IF keys = <<>> THEN 0 ELSE Head(keys).partsize + tmpParts(Tail(keys))

\* The entries of stsz: the decoded parts of every key of the track.
RECURSIVE StszEntries(_)
StszEntries(keys) ==
  IF keys = <<>> THEN <<>> ELSE Head(keys).parts \o StszEntries(Tail(keys))

\* The parts of a key of the track itself: an entry each, at the offset
\* reached, which then moves on by the part.
RECURSIVE StcoParts(_, _, _)
StcoParts(parsedParts, stco, totalByteOffset) ==
  IF parsedParts = <<>>
  THEN [stco |-> stco, totalByteOffset |-> totalByteOffset]
  ELSE StcoParts(Tail(parsedParts), Append(stco, totalByteOffset),
                 totalByteOffset + Head(parsedParts))

\* The loop over keyParts that fills stco for the track trackid: a key of
\* another track moves the offset on by its size field.
RECURSIVE StcoLoop(_, _, _)
StcoLoop(kp, trackid, r) ==
  IF kp = <<>> THEN r
  ELSE IF Head(kp).trackID = trackid
  THEN StcoLoop(Tail(kp), trackid,
                StcoParts(Head(kp).parts, r.stco, r.totalByteOffset))
  ELSE StcoLoop(Tail(kp), trackid,
                [r EXCEPT !.totalByteOffset = r.totalByteOffset + Head(kp).size])

\* The sample tables of one trak box, with what the stco loop left in
\* totalByteOffset.
TrakTables(track, r) ==
  [trackid |-> track.trackid,
   stts |-> tmpParts(track.keys),
   stsz |-> StszEntries(track.keys),
   stco |-> r.stco,
   totalByteOffset |-> r.totalByteOffset]

Trak(track, kp) ==
  TrakTables(track, StcoLoop(kp, track.trackid,
                             [stco |-> <<>>, totalByteOffset |-> 0]))

\* mdatSize is assigned in the loop over the tracks: the value of the last
\* track stays.
MdatSize(traks) ==
  IF traks = <<>> THEN 0 ELSE traks[Len(traks)].totalByteOffset

\* ftypBox.boxedSize() + moovBox.boxedSize(): of the bytes of the boxes the
\* model keeps the ftyp box with its four brands, a box header for moov and
\* for each trak, and the entries of the tables: 4 bytes for an entry of
\* stsz, 8 for one of stco.
RECURSIVE TraksSize(_)
TraksSize(traks) ==
  IF traks = <<>> THEN 0
  ELSE 8 + 4 * Len(Head(traks).stsz) + 8 * Len(Head(traks).stco)
         + TraksSize(Tail(traks))

boxedSize(traks) == 32 + 8 + TraksSize(traks)

\* The loop that adds byteOffset to every entry of the stco of every trak.
UpdateSTCO(traks, byteOffset) ==
  [i \in 1..Len(traks) |->
     [traks[i] EXCEPT !.stco = [j \in 1..Len(traks[i].stco) |->
                                  traks[i].stco[j] + byteOffset]]]

\* The four bytes written before "mdat".
MdatBytes(mdatSize) ==
  <<(mdatSize \div 16777216) % 256, (mdatSize \div 65536) % 256,
    (mdatSize \div 256) % 256, mdatSize % 256>>

HeaderOf(kp, traks, byteOffset) ==
  [keyParts |-> kp,
   traks |-> UpdateSTCO(traks, byteOffset),
   byteOffset |-> byteOffset,
   mdat |-> MdatBytes(MdatSize(traks))]

HeaderTraks(kp, traks) == HeaderOf(kp, traks, boxedSize(traks) + 8)

HeaderPlan(tracks, kp) ==
  HeaderTraks(kp, [i \in 1..Len(tracks) |-> Trak(tracks[i], kp)])

\* DTSCMeta2MP4Header(metaData): the member keyParts and what the returned
\* header holds.
DTSCMeta2MP4Header(tracks) == HeaderPlan(tracks, AllKeyParts(<<>>, tracks))

\* ---- parseDTSC ----------------------------------------------------------
\* s is [curKey, curPart, trackBuffer, stringBuffer, end].  Reading *curKey
\* at end() is undefined: it gives g, a key of any track and partsize, and
\* ++ on end() leaves the iterator at end() or at begin().
KeyAt(kp, i, g) == IF i > Len(kp) THEN g ELSE kp[i]

\* curPart++ and, the parts of the key done, curKey++.
NextPart(kp, s, g) ==
  IF s.curPart + 1 >= KeyAt(kp, s.curKey, g).partsize
  THEN [s EXCEPT !.curPart = 0,
                 !.curKey = IF s.curKey > Len(kp)
                            THEN (IF g.next = "begin" THEN 1 ELSE s.curKey)
                            ELSE s.curKey + 1]
  ELSE [s EXCEPT !.curPart = s.curPart + 1]

\* *curKey was read.
Deref(kp, s) == [s EXCEPT !.end = s.end \/ s.curKey > Len(kp)]

\* The payload goes to stringBuffer.
PutOut(s, payload) == [s EXCEPT !.stringBuffer = s.stringBuffer \o payload]

PopFront(s, trackID) ==
  [s EXCEPT !.trackBuffer = [s.trackBuffer EXCEPT ![trackID] = Tail(s.trackBuffer[trackID])]]

\* The loop that puts out the queued parts of the track of curKey.
RECURSIVE CleanoutLoop(_, _, _)
CleanoutLoop(kp, s, g) ==
  IF s.trackBuffer[KeyAt(kp, s.curKey, g).trackID] = <<>>
  THEN Deref(kp, s)
  ELSE CleanoutLoop(
         kp,
         NextPart(kp,
                  PopFront(PutOut(Deref(kp, s),
                                  Head(s.trackBuffer[KeyAt(kp, s.curKey, g).trackID]).data),
                           KeyAt(kp, s.curKey, g).trackID),
                  g),
         g)

\* After the loop: the part is put out if it is of the track of curKey and
\* queued otherwise.
PutOrQueue(kp, s, mediaPart, g) ==
  IF KeyAt(kp, s.curKey, g).trackID = mediaPart.trackid
  THEN NextPart(kp, PutOut(Deref(kp, s), mediaPart.data), g)
  ELSE [Deref(kp, s) EXCEPT
          !.trackBuffer = [s.trackBuffer EXCEPT ![mediaPart.trackid] =
                             Append(s.trackBuffer[mediaPart.trackid], mediaPart)]]

\* The static curKey is keyParts.begin() at the first call.
parseDTSC(kp, s, mediaPart, g) ==
  PutOrQueue(kp,
             CleanoutLoop(kp, [s EXCEPT !.curKey = IF s.curKey = 0 THEN 1 ELSE s.curKey], g),
             mediaPart, g)

sendReady(buffer) == Len(buffer) > 0

sendString(buffer) == [ret |-> buffer, stringBuffer |-> <<>>]

(***************************************************************************)
(* The header of the converter: DTSCMeta2MP4Header is called once with the *)
(* metadata of a video track, of an audio track or of both in either       *)
(* order.  The keys of a track have the times 0, 1, ..., each up to        *)
(* MaxKeyParts parts of one size; at most one key of the metadata has a    *)
(* size of 0, a size that is not the sum of its parts, or a partsize that  *)
(* is not the number of its parts.                                         *)
(***************************************************************************)
PartSizes == {200, 1000}

KeyOf(time, n, size) ==
  [time |-> time, size |-> n * size, partsize |-> n,
   parts |-> [i \in 1..n |-> size]]

KeySeqs(sizes) ==
  UNION {{[i \in 1..len |-> KeyOf(i - 1, f[i][1], f[i][2])] :
            f \in [1..len -> (1..MaxKeyParts) \X sizes]} : len \in 1..MaxKeys}

VideoTrack(keys) == [trackid |-> 1, type |-> "video", keys |-> keys]
AudioTrack(keys) == [trackid |-> 2, type |-> "audio", keys |-> keys]

Metas(sizes) ==
  {<<VideoTrack(v)>> : v \in KeySeqs(sizes)}
    \cup {<<AudioTrack(a)>> : a \in KeySeqs(sizes)}
    \cup {<<VideoTrack(v), AudioTrack(a)>> : v \in KeySeqs(sizes), a \in KeySeqs(sizes)}
    \cup {<<AudioTrack(a), VideoTrack(v)>> : v \in KeySeqs(sizes), a \in KeySeqs(sizes)}

Faults == {"size 0", "size", "partsize"}

FaultyKey(key, fault) ==
  CASE fault = "size 0" -> [key EXCEPT !.size = 0]
    [] fault = "size" -> [key EXCEPT !.size = key.size + 1]
    [] fault = "partsize" -> [key EXCEPT !.partsize = key.partsize + 1]

Faulty(tracks, t, k, fault) ==
  [tracks EXCEPT ![t].keys[k] = FaultyKey(tracks[t].keys[k], fault)]

HeaderMetas(sizes) ==
  Metas(sizes)
    \cup UNION {{Faulty(md, t, k, fault) :
                   fault \in Faults, t \in 1..Len(md), k \in 1..MaxKeys} :
                md \in {x \in Metas(sizes) :
                          \A t \in 1..Len(x) : Len(x[t].keys) = MaxKeys}}

Mp4Start ==
  /\ keyParts = <<>>
  /\ mp4Header = <<>>
  /\ curKey = 0
  /\ curPart = 0
  /\ trackBuffer = [t \in 0..2 |-> <<>>]
  /\ stringBuffer = <<>>
  /\ mFetched = <<>>
  /\ mFed = [t \in 1..2 |-> 0]
  /\ mOp = NoMp4Op

HeaderInit == metaData \in HeaderMetas(PartSizes) /\ Mp4Start

HeaderAfter(h) ==
  /\ mp4Header' = h
  /\ keyParts' = h.keyParts
  /\ mOp' = [NoMp4Op EXCEPT !.name = "DTSCMeta2MP4Header"]

\* DTSCMeta2MP4Header(metaData), once.
Mp4Header ==
  /\ mp4Header = <<>>
  /\ HeaderAfter(DTSCMeta2MP4Header(metaData))
  /\ UNCHANGED <<metaData, curKey, curPart, trackBuffer, stringBuffer, mFetched,
                 mFed>>
  /\ UNCHANGED bufVars
  /\ UNCHANGED streamVars
  /\ UNCHANGED concVars
  /\ UNCHANGED flvVars
  /\ UNCHANGED convVars
  /\ UNCHANGED httpVars
  /\ UNCHANGED urlVars
  /\ UNCHANGED sockVars
  /\ UNCHANGED sendVars
  /\ UNCHANGED seekVars

HeaderNext == Mp4Header

(***************************************************************************)
(* The converter at work: the header is made for metadata of a video and   *)
(* an audio track whose keys fit their parts, then the media parts of the  *)
(* tracks are given to parseDTSC, those of a track in their order, the     *)
(* tracks in any order, and sendString is called at any time.  The n-th    *)
(* part of track t carries as many bytes as the n-th part of the keys of   *)
(* the track, each byte written <<t, n>>; up to MaxExtra parts of one byte *)
(* are given beyond those of the keys.                                     *)
(***************************************************************************)
PlanMetas(videoSizes, audioSizes) ==
  {<<VideoTrack(v), AudioTrack(a)>> :
     v \in KeySeqs(videoSizes), a \in KeySeqs(audioSizes)}

\* The sizes of the parts of track t of the metadata, in order.
Planned(t) == StszEntries(metaData[t].keys)

MediaPart(t, n) ==
  [trackid |-> t,
   data |-> [i \in 1..(IF n <= Len(Planned(t)) THEN Planned(t)[n] ELSE 1) |-> <<t, n>>]]

Over(t) == IF mFed[t] > Len(Planned(t)) THEN mFed[t] - Len(Planned(t)) ELSE 0

\* What reading *curKey at end() may give.
Garbage == [trackID : 0..2, partsize : {1, Huge}, next : {"end", "begin"}]

Mp4Init == metaData \in PlanMetas({1, 2}, {1}) /\ Mp4Start

ParseAfter(s, t) ==
  /\ curKey' = s.curKey
  /\ curPart' = s.curPart
  /\ trackBuffer' = s.trackBuffer
  /\ stringBuffer' = s.stringBuffer
  /\ mFed' = [mFed EXCEPT ![t] = mFed[t] + 1]
  /\ mOp' = [name |-> "parseDTSC", ready |-> sendReady(s.stringBuffer),
             end |-> s.end, ret |-> <<>>]

\* parseDTSC(mediaPart) with the next part of a track.
Mp4Parse ==
  /\ mp4Header # <<>>
  /\ \E t \in 1..2, g \in Garbage :
       /\ mFed[t] < Len(Planned(t)) + MaxExtra - Over(1) - Over(2)
       /\ ParseAfter(parseDTSC(keyParts,
                               [curKey |-> curKey, curPart |-> curPart,
                                trackBuffer |-> trackBuffer,
                                stringBuffer |-> stringBuffer, end |-> mOp.end],
                               MediaPart(t, mFed[t] + 1), g), t)
  /\ UNCHANGED <<metaData, keyParts, mp4Header, mFetched>>
  /\ UNCHANGED bufVars
  /\ UNCHANGED streamVars
  /\ UNCHANGED concVars
  /\ UNCHANGED flvVars
  /\ UNCHANGED convVars
  /\ UNCHANGED httpVars
  /\ UNCHANGED urlVars
  /\ UNCHANGED sockVars
  /\ UNCHANGED sendVars
  /\ UNCHANGED seekVars

SendStringAfter(r) ==
  /\ stringBuffer' = r.stringBuffer
  /\ mFetched' = mFetched \o r.ret
  /\ mOp' = [name |-> "sendString", ready |-> sendReady(r.stringBuffer),
             end |-> mOp.end, ret |-> r.ret]

\* sendString(), sendReady() after it.
Mp4SendString ==
  /\ mp4Header # <<>>
  /\ SendStringAfter(sendString(stringBuffer))
  /\ UNCHANGED <<metaData, keyParts, mp4Header, curKey, curPart, trackBuffer,
                 mFed>>
  /\ UNCHANGED bufVars
  /\ UNCHANGED streamVars
  /\ UNCHANGED concVars
  /\ UNCHANGED flvVars
  /\ UNCHANGED convVars
  /\ UNCHANGED httpVars
  /\ UNCHANGED urlVars
  /\ UNCHANGED sockVars
  /\ UNCHANGED sendVars
  /\ UNCHANGED seekVars

Mp4Next == Mp4Header \/ Mp4Parse \/ Mp4SendString

(***************************************************************************)
(* Specifications.                                                         *)
(***************************************************************************)
InitBuf == BufInit /\ StreamIdle /\ FlvIdle /\ ConcIdle /\ ConvIdle /\ HttpIdle /\ UrlIdle /\ SockIdle /\ SendIdle /\ SeekIdle /\ Mp4Idle
SpecBuf == InitBuf /\ [][BufNext]_vars

InitStream == BufInit /\ StreamInit /\ FlvIdle /\ ConcIdle /\ ConvIdle /\ HttpIdle /\ UrlIdle /\ SockIdle /\ SendIdle /\ SeekIdle /\ Mp4Idle
SpecStream == InitStream /\ [][StreamNext]_vars

InitRing == BufInit /\ RingInit /\ FlvIdle /\ ConcIdle /\ ConvIdle /\ HttpIdle /\ UrlIdle /\ SockIdle /\ SendIdle /\ SeekIdle /\ Mp4Idle
SpecRing == InitRing /\ [][RingNext]_vars

InitScenario == BufInit /\ ScenarioInit /\ FlvIdle /\ ConcIdle /\ ConvIdle /\ HttpIdle /\ UrlIdle /\ SockIdle /\ SendIdle /\ SeekIdle /\ Mp4Idle
SpecScenario == InitScenario /\ [][ScenarioNext]_vars

InitConc == BufInit /\ ConcInit /\ FlvIdle /\ ConcIdle /\ ConvIdle /\ HttpIdle /\ UrlIdle /\ SockIdle /\ SendIdle /\ SeekIdle /\ Mp4Idle
SpecConc == InitConc /\ [][ConcNext]_vars

InitFlv == BufInit /\ StreamIdle /\ FlvInit /\ ConcIdle /\ ConvIdle /\ HttpIdle /\ UrlIdle /\ SockIdle /\ SendIdle /\ SeekIdle /\ Mp4Idle
SpecFlv == InitFlv /\ [][FlvNext]_vars

InitTime == BufInit /\ StreamIdle /\ TimeInit /\ ConcIdle /\ HttpIdle /\ UrlIdle /\ SockIdle /\ SendIdle /\ SeekIdle /\ Mp4Idle
SpecTime == InitTime /\ [][TimeNext]_vars

InitConv == BufInit /\ StreamIdle /\ ConvInit /\ ConcIdle /\ HttpIdle /\ UrlIdle /\ SockIdle /\ SendIdle /\ SeekIdle /\ Mp4Idle
SpecConv == InitConv /\ [][ConvNext]_vars

InitHttp == BufInit /\ StreamIdle /\ FlvIdle /\ ConcIdle /\ ConvIdle /\ HttpInit /\ UrlIdle /\ SockIdle /\ SendIdle /\ SeekIdle /\ Mp4Idle
SpecHttp == InitHttp /\ [][HttpNext]_vars

InitHttpLine == BufInit /\ StreamIdle /\ FlvIdle /\ ConcIdle /\ ConvIdle /\ LineInit /\ UrlIdle /\ SockIdle /\ SendIdle /\ SeekIdle /\ Mp4Idle
SpecHttpLine == InitHttpLine /\ [][HttpNext]_vars

InitHttpEol == BufInit /\ StreamIdle /\ FlvIdle /\ ConcIdle /\ ConvIdle /\ EolInit /\ UrlIdle /\ SockIdle /\ SendIdle /\ SeekIdle /\ Mp4Idle
SpecHttpEol == InitHttpEol /\ [][HttpNext]_vars

InitUrl == BufInit /\ StreamIdle /\ UrlBuild /\ ConcIdle /\ ConvIdle /\ HttpIdle /\ UrlInit /\ SockIdle /\ SendIdle /\ SeekIdle /\ Mp4Idle
SpecUrl == InitUrl /\ [][UrlNext]_vars

InitSock == BufInit /\ StreamIdle /\ FlvIdle /\ ConcIdle /\ ConvIdle /\ HttpIdle /\ UrlIdle /\ SockInit /\ SendIdle /\ SeekIdle /\ Mp4Idle
SpecSock == InitSock /\ [][SockNext]_vars

InitResp == BufInit /\ StreamIdle /\ FlvIdle /\ ConcIdle /\ ConvIdle /\ HttpIdle /\ UrlIdle /\ RespInit /\ SendIdle /\ SeekIdle /\ Mp4Idle
SpecResp == InitResp /\ [][RespNext]_vars

InitProxy == BufInit /\ StreamIdle /\ FlvIdle /\ ConcIdle /\ ConvIdle /\ UrlIdle /\ ProxyInit /\ SendIdle /\ SeekIdle /\ Mp4Idle
SpecProxy == InitProxy /\ [][ProxyNext]_vars

InitSend == BufInit /\ StreamIdle /\ FlvIdle /\ ConcIdle /\ ConvIdle /\ UrlIdle /\ SendInit /\ SeekIdle /\ Mp4Idle
SpecSend == InitSend /\ [][SendNext]_vars

InitSeek == BufInit /\ StreamIdle /\ FlvIdle /\ ConcIdle /\ ConvIdle /\ HttpIdle /\ UrlIdle /\ SockIdle /\ SendIdle /\ SeekInit /\ Mp4Idle
SpecSeek == InitSeek /\ [][SeekNext]_vars

InitMp4Header == BufInit /\ StreamIdle /\ FlvIdle /\ ConcIdle /\ ConvIdle /\ HttpIdle /\ UrlIdle /\ SockIdle /\ SendIdle /\ SeekIdle /\ HeaderInit
SpecMp4Header == InitMp4Header /\ [][HeaderNext]_vars

InitMp4 == BufInit /\ StreamIdle /\ FlvIdle /\ ConcIdle /\ ConvIdle /\ HttpIdle /\ UrlIdle /\ SockIdle /\ SendIdle /\ SeekIdle /\ Mp4Init
SpecMp4 == InitMp4 /\ [][Mp4Next]_vars

InitHttpConn == BufInit /\ StreamIdle /\ FlvIdle /\ ConcIdle /\ ConvIdle /\ ConnInit /\ UrlIdle /\ SockIdle /\ SendIdle /\ SeekIdle /\ Mp4Idle
SpecHttpConn == InitHttpConn /\ [][ConnNext]_vars

(***************************************************************************)
(* Claims.                                                                 *)
(***************************************************************************)

\* C1 (Buffer FIFO): an append adds its bytes behind the queued ones however
\* it is split into blocks; remove(k) with k <= queued bytes returns the first
\* k queued bytes and leaves the rest in order; remove(k) with fewer than k
\* bytes queued returns the empty string and changes nothing.
BufferFIFO ==
  /\ bufOp = "append" => Flatten(data) = bufPre \o bufArg
  /\ (bufOp = "remove" /\ bufArg <= Len(bufPre)) =>
        /\ bufRet = SubSeq(bufPre, 1, bufArg)
        /\ Flatten(data) = SubSeq(bufPre, bufArg + 1, Len(bufPre))
  /\ (bufOp = "remove" /\ bufArg > Len(bufPre)) =>
        /\ bufRet = <<>>
        /\ Flatten(data) = bufPre

\* Witness of C1: a remove took bytes out of a buffer whose content lies in
\* several blocks, one of them cut at the block size, and left bytes behind.
BufferFIFOWitness ==
  /\ bufOp = "remove"
  /\ bufArg > BUFFER_BLOCKSIZE
  /\ Len(bufRet) = bufArg
  /\ Len(data) > 1
  /\ Flatten(data) # <<>>
\* C2 (SC uniqueness): no two stored packets share a LivePos, and the
\* insertion of any packet into the packets stored, whether its position
\* collides or not, keeps every stored packet and adds one.
SCUniqueness ==
  /\ \A e1, e2 \in buffers : e1.pos = e2.pos => e1 = e2
  /\ \A p \in PacketInputs(trackKind, MaxTime) :
        LET ins == InsertPacket(buffers, keyframes, p)
        IN  /\ buffers \subseteq ins.b
            /\ Cardinality(ins.b) = Cardinality(buffers) + 1
  /\ sLast.op = "add" => sLast.mid = sLast.pre + 1

\* Witness of C2: the last packet collided and was stored one or more
\* milliseconds later, beside the packet it collided with.
SCUniquenessWitness ==
  /\ sLast.op = "add"
  /\ sLast.pos # sLast.from
  /\ sLast.cuts = 0
  /\ sLast.from \in Positions(buffers)
  /\ sLast.pos \in Positions(buffers)

\* The oldest stored video packet of track t, when there is one.
VideoOf(t) == {e \in buffers : e.pos.trackID = t /\ e.kind = "video"}
OldestVideo(t) == CHOOSE e \in VideoOf(t) : e.pos = MinPos(Positions(VideoOf(t)))

KeyframeIndexConsistent ==
  \A t \in Tracks : \A x \in keyframes[t] :
    /\ x \in Positions(buffers)
    /\ x.trackID = t
    /\ \A e \in buffers : e.pos = x => (e.kind = "video" /\ e.key)

\* Witness of C7: an eviction has removed a keyframe, and a keyframe that
\* was stored at a re-keyed position is still indexed.
KeyframeIndexWitness ==
  /\ sLast.op = "add"
  /\ sLast.cuts > 0
  /\ \E t \in Tracks : \E x \in keyframes[t] :
        \E e \in buffers : e.pos = x /\ e.time # x.seekTime
\* The time the retained packets span back from the newest one.
RetainedSpan ==
  IF buffers = {} THEN 0
  ELSE MaxPos(Positions(buffers)).seekTime - MinPos(Positions(buffers)).seekTime

IsScenarioRun ==
  /\ buffercount = 4
  /\ buffertime = 0
  /\ sFeed = SubSeq(ScenarioFeed, 1, Len(sFeed))

HeadIsKeyframe200 ==
  /\ buffers # {}
  /\ MinPos(Positions(buffers)) = LivePos(200, 1)
  /\ \A e \in buffers : e.pos = LivePos(200, 1) => (e.kind = "video" /\ e.key)
  /\ \A e \in buffers : e.pos.seekTime >= 200

\* C5 as claimed (Eviction scenario): nothing is evicted before the sixth
\* addPacket, and after it all packets before t=200 are gone and the oldest
\* retained packet is the t=200 keyframe.
EvictionScenario ==
  IsScenarioRun =>
    /\ Len(sFeed) < 6 => Cardinality(buffers) = Len(sFeed)
    /\ Len(sFeed) = 6 => HeadIsKeyframe200

\* C5 as amended: nothing is evicted before the fifth addPacket; the fifth
\* evicts the t=100 keyframe and its tail, and after the fifth and after the
\* sixth addPacket the oldest retained packet is the t=200 keyframe and
\* every packet from t=200 on is retained.
EvictionScenarioAmended ==
  IsScenarioRun =>
    /\ Len(sFeed) < 5 => Cardinality(buffers) = Len(sFeed)
    /\ Len(sFeed) = 5 => sLast.cuts = 1
    /\ Len(sFeed) = 6 => sLast.cuts = 0
    /\ Len(sFeed) >= 5 =>
          /\ HeadIsKeyframe200
          /\ Cardinality(buffers) = Len(sFeed) - 3

\* Witness of C5: the six packets of the scenario have been fed.
EvictionScenarioWitness ==
  /\ IsScenarioRun
  /\ Len(sFeed) = 6
  /\ HeadIsKeyframe200
\* The keyframes of the tracks reader x reads.
SelectedKeyframes(x) == UNION {keyframes[t] : t \in rings[x].allowed}

PayloadLength(d) == d[2] * 65536 + d[3] * 256 + d[4]

\* C10 as claimed (FLV loader completeness): P never exceeds S, and when
\* MemLoader has returned true, data holds one whole tag of the stream,
\* copied byte for byte, len is the payload length in its header plus 15,
\* and len bytes of the stream were consumed for it.
LoaderComplete ==
  /\ flvP <= flvS
  /\ flvLast.ret =>
        /\ tag.len = PayloadLength(tag.data) + 15
        /\ SubSeq(tag.data, 1, tag.len) =
              SubSeq(flvIn, flvLast.start + 1, flvLast.start + tag.len)
        /\ flvLast.used = tag.len

\* The packets and the keyframe index of a snapshot.
Stored(s) == [b |-> s.b, k |-> s.k]

ValidHeaderAt(q) ==
  /\ Len(flvIn) >= q + 13
  /\ check_header(SubSeq(flvIn, q + 1, q + 13))

InvalidHeaderAt(q) ==
  /\ Len(flvIn) >= q + 13
  /\ is_header(SubSeq(flvIn, q + 1, q + 13))
  /\ ~check_header(SubSeq(flvIn, q + 1, q + 13))

InvalidTypeAt(q) ==
  /\ Len(flvIn) >= q + 11
  /\ ~is_header(SubSeq(flvIn, q + 1, q + 11))
  /\ flvIn[q + 1] > 18

\* C12 as claimed (FLV protocol errors do not advance the loader): once
\* the loader has read an invalid container header, or a tag header with
\* a type byte above 0x12, Parse_Error is set, no call returns true, done
\* stays true, FLV::Header holds nothing invalid, and the type byte in
\* data is the one of the stream plus 32, whatever the number of calls.
ProtocolErrorSticks ==
  /\ check_header(Header)
  /\ (InvalidHeaderAt(flvLast.start) /\ flvLast.used >= 13) =>
        (Parse_Error /\ ~flvLast.ret /\ tag.done)
  /\ (InvalidTypeAt(flvLast.start) /\ flvLast.used >= 11) =>
        /\ Parse_Error
        /\ ~flvLast.ret
        /\ tag.done
        /\ tag.data[1] = (flvIn[flvLast.start + 1] + 32) % 256

\* C13: for every 32-bit T, after tagTime(T) the getter returns T, and
\* data[4], data[5], data[6], data[7] hold bits 23..16, 15..8, 7..0 and
\* 31..24 of T, also when some of these bytes are 0x80 or more.
TimeRoundTrip ==
  cOp = "get" =>
    /\ cOut = cArg
    /\ tag.data[5] = cArg.hi % 256
    /\ tag.data[6] = cArg.lo \div 256
    /\ tag.data[7] = cArg.lo % 256
    /\ tag.data[8] = cArg.hi \div 256

\* C13, where char is unsigned: the getter returns what the setter was given.
TimeRoundTripUnsigned == (cOp = "get" /\ ~flvSigned) => cOut = cArg

\* C13, the bytes alone: the setter stores the four bytes the claim names.
TimeBytesStored ==
  cOp # "none" =>
    /\ tag.data[5] = cArg.hi % 256
    /\ tag.data[6] = cArg.lo \div 256
    /\ tag.data[7] = cArg.lo % 256
    /\ tag.data[8] = cArg.hi \div 256

\* The tag converted is an AAC init tag: audio, AAC codec nibble, packet
\* type 0.
IsAacInit(d) == d[1] = 8 /\ HiNibble(d[12]) = 160 /\ d[13] = 0

\* C14: toJSON of an AAC init tag (body AF 00 and the init bytes) sets the
\* codec of track 2 to "AAC" and its init to the body after the two-byte
\* audio header, and returns no packet.
AacInitTranslated ==
  (cOp = "toJSON" /\ IsAacInit(tag.data)) =>
    /\ CodecIs(cMeta.track2, "AAC")
    /\ isMember(cMeta.track2, "init")
    /\ cMeta.track2["init"] = Bytes(tag.data, 13, tag.len - 17)
    /\ cOut = JNull

\* C14 without the codec: the init bytes are stored and no packet returned.
AacInitStored ==
  (cOp = "toJSON" /\ IsAacInit(tag.data)) =>
    /\ isMember(cMeta.track2, "init")
    /\ cMeta.track2["init"] = Bytes(tag.data, 13, tag.len - 17)
    /\ cOut = JNull

\* The codec of the track a packet belongs to.
CodecOf(metadata, packet) ==
  LET tr == IF packet["trackid"] = 1 THEN metadata.track1 ELSE metadata.track2
  IN  IF isMember(tr, "codec") THEN tr["codec"] ELSE ""

\* C15: a data tag converted with toJSON, made a tag again with DTSCLoader
\* and converted again gives the same packet (kind, track, time, frame
\* flags, NALU indicator, composition offset, payload) and the same codec.
FlvRoundTrip ==
  cOp = "again" =>
    /\ cOut = cArg.packet
    /\ CodecOf(cMeta, cOut) = CodecOf(cArg.metadata, cArg.packet)

\* C15 where char is unsigned, the metadata has been through a script-data
\* tag (the video track has its trackid) and the second conversion uses the
\* metadata of the first: the same packet comes out.
FlvRoundTripUnsigned ==
  (/\ cOp = "again"
   /\ ~flvSigned
   /\ isMember(cArg.metadata.track1, "trackid")
   /\ cMeta = cArg.metadata) => cOut = cArg.packet

\* The bytes Read has removed from the front of the buffer so far.
Removed == hApp - Len(strbuf)

\* Everything has arrived and Read neither completes nor changes anything.
Quiescent ==
  /\ hApp = Len(AllInput)
  /\ ~hLast.ret
  /\ LET r == Read(parser, strbuf)
     IN  ~r.ret /\ r.p = parser /\ r.HTTPbuffer = strbuf

\* C16: the request line GET /x?a=1&b=%20 HTTP/1.1 gives method "GET", the
\* url as sent, getUrl() "/x" and the variables a = "1", b = " "; every
\* key=value pair of a query is stored under its URL-decoded key with
\* exactly its URL-decoded value.
QueryVarsParsed ==
  (hIn.kind = "request" /\ hLast.ret) =>
    /\ parser.method = <<71, 69, 84>>
    /\ parser.url = hIn.url
    /\ getUrl(parser.url) = hIn.path
    /\ parser.vars = hIn.vars

\* C16 with the values as SetVar keeps them: trimmed of blanks and tabs.
QueryVarsTrimmed ==
  (hIn.kind = "request" /\ hLast.ret) =>
    /\ parser.method = <<71, 69, 84>>
    /\ parser.url = hIn.url
    /\ getUrl(parser.url) = hIn.path
    /\ parser.vars = [k \in DOMAIN hIn.vars |-> Trim(hIn.vars[k])]

\* The bytes of a chunked response before its zero-length chunk line.
ZeroChunkAt ==
  Len(ChunkedHead) + Len(Concat([i \in 1..Len(hIn.chunks) |-> Chunkify(hIn.chunks[i])]))

\* C17: Read called on a chunked response until it returns true leaves the
\* chunk payloads, in order and nothing else, in body; it returns true when
\* the zero-length chunk line has been read and not before, and getChunks is
\* false afterwards.
ChunkedDecoded ==
  (hIn.kind = "chunked" /\ ~parser.headerOnly) =>
    /\ hLast.ret =>
         /\ hIn.complete
         /\ parser.body = Concat(hIn.chunks)
         /\ ~parser.getChunks
         /\ Removed = ZeroChunkAt
         /\ hApp >= ZeroChunkAt + 3
    /\ ~hLast.ret =>
         /\ Len(parser.body) <= Len(Concat(hIn.chunks))
         /\ parser.body = SubSeq(Concat(hIn.chunks), 1, Len(parser.body))
         /\ parser.seenHeaders => parser.getChunks
    /\ ~(hIn.complete /\ Quiescent)

ChunkedDecodedWitness ==
  /\ hIn.kind = "chunked"
  /\ ~parser.headerOnly
  /\ hLast.ret
  /\ parser.body = <<104, 101, 108, 108, 111>>
  /\ hIn.msg = ChunkedHead \o <<53, 13, 10, 104, 101, 108, 108, 111, 13, 10, 48, 13, 10, 13, 10>>
  /\ hApp = Len(AllInput)

\* Read called on the buffer until it returns true or changes nothing.
RECURSIVE RunToEnd(_, _)
RunToEnd(p, sbuf) ==
  LET r == Read(p, sbuf)
  IN  IF r.ret \/ (r.p = p /\ r.HTTPbuffer = sbuf) THEN r
      ELSE RunToEnd(r.p, r.HTTPbuffer)

\* Read(conn) called until it returns true or changes nothing, the byte
\* before an empty part never being a newline.
RECURSIVE RunConnToEnd(_, _)
RunConnToEnd(p, d) ==
  LET r == ReadConn(p, d, FALSE)
  IN  IF r.ret \/ (r.p = p /\ r.d = d) THEN r
      ELSE RunConnToEnd(r.p, r.d)

\* Everything has arrived and Read(conn) neither completes nor changes
\* anything, whatever it finds before an empty part.
QuiescentConn ==
  /\ hApp = Len(AllInput)
  /\ ~hLast.ret
  /\ \A nl \in BOOLEAN :
       LET r == ReadConn(parser, conn, nl)
       IN  ~r.ret /\ r.p = parser /\ r.d = conn

SplitInvariantString ==
  (hIn.kind = "chunked" /\ (hLast.ret \/ Quiescent)) =>
    LET e == RunToEnd([NewParser EXCEPT !.headerOnly = parser.headerOnly], AllInput)
    IN  /\ parser.body = e.p.body
        /\ parser.headers = e.p.headers
        /\ hLast.ret = e.ret

\* C19: when Read returns true the whole message, and for a chunked body
\* its terminating zero-length chunk, has been removed from the front of
\* the buffer, and nothing of what follows it.
ConsumedOnCompletion ==
  (hLast.ret /\ ~parser.headerOnly) => Removed = Len(hIn.msg)

\* C19 for the messages that are not chunked.
ConsumedUnlessChunked ==
  (hLast.ret /\ ~parser.headerOnly /\ hIn.kind # "chunked") => Removed = Len(hIn.msg)

\* C20: with Content-Length: N, N > 0, the parser appends exactly the N body
\* bytes over any number of Read calls, returns false while it has fewer and
\* true at the call where it has N, removes no byte after them, and runs
\* parseVars over the body once, at completion.
ContentLengthBody ==
  (hIn.kind = "post" /\ ~parser.headerOnly) =>
    LET N == hIn.length
        full == SubSeq(hIn.msg, Len(hIn.msg) - N + 1, Len(hIn.msg))
    IN  /\ Len(parser.body) <= N
        /\ parser.body = SubSeq(full, 1, Len(parser.body))
        /\ hLast.ret <=> (parser.seenHeaders /\ Len(parser.body) = N)
        /\ Removed <= Len(hIn.msg)
        /\ parser.seenHeaders => Removed = Len(hIn.msg) - N + Len(parser.body)
        /\ hLast.posts = IF hLast.ret THEN 1 ELSE 0
        /\ hLast.ret => parser.vars = parseVars(EmptyMap, full)

ContentLengthBodyWitness ==
  /\ hIn.kind = "post"
  /\ ~parser.headerOnly
  /\ hIn.length = 7
  /\ hLast.ret
  /\ hLast.steps >= 4
  /\ hIn.next # <<>>
  /\ strbuf = hIn.next

\* The parser has read the first line of the input and nothing after it.
FirstLineRead == Removed = Len(hIn.bad)

\* C21: a first line that is not of three space-separated tokens is
\* consumed and leaves seenReq false and method, url, protocol and vars as
\* they were, and the well-formed line after it is parsed as the start line.
MalformedStartLineIgnored ==
  hIn.kind = "badline" =>
    /\ (hApp >= Len(hIn.bad) /\ Quiescent) => Removed >= Len(hIn.bad)
    /\ FirstLineRead =>
         /\ ~parser.seenReq
         /\ parser.method = NewParser.method
         /\ parser.url = NewParser.url
         /\ parser.protocol = NewParser.protocol
         /\ parser.vars = NewParser.vars
    /\ hLast.ret =>
         /\ parser.method = <<80, 85, 84>>
         /\ parser.url = <<47, 122>>
         /\ parser.protocol = <<72, 84, 84, 80, 47, 49, 46, 48>>
         /\ parser.vars = EmptyMap

\* What holds of C21: a line without a space changes nothing, a line of two
\* tokens leaves seenReq false, url and vars as they were, and in both cases
\* the line after it is parsed as the start line.
MalformedStartLineSkipped ==
  (hIn.kind = "badline" /\ hIn.bad \in ShortLines) =>
    /\ (hApp >= Len(hIn.bad) /\ Quiescent) => Removed >= Len(hIn.bad)
    /\ FirstLineRead =>
         /\ ~parser.seenReq
         /\ parser.url = NewParser.url
         /\ parser.vars = NewParser.vars
         /\ Find(hIn.bad, 32, 1) = 0 =>
              /\ parser.method = NewParser.method
              /\ parser.protocol = NewParser.protocol
    /\ hLast.ret =>
         /\ parser.method = <<80, 85, 84>>
         /\ parser.url = <<47, 122>>
         /\ parser.protocol = <<72, 84, 84, 80, 47, 49, 46, 48>>
         /\ parser.vars = EmptyMap

\* The parser at its end is as it is at the end of the message written with
\* LF alone and no carriage return in any line.
SameAsPlain ==
  LET e == RunToEnd(NewParser, hIn.alt)
  IN  /\ hLast.ret = e.ret
      /\ parser.method = e.p.method
      /\ parser.url = e.p.url
      /\ parser.protocol = e.p.protocol
      /\ parser.headers = e.p.headers
      /\ parser.vars = e.p.vars
      /\ parser.body = e.p.body

\* C22: a message parsed with CR LF line endings and with LF line endings
\* gives the same method, url, protocol, headers, vars and body, and a
\* carriage return is stripped without any other character of the line.
CrLfEquivalence ==
  (hIn.kind = "eol" /\ (hLast.ret \/ Quiescent)) => SameAsPlain

\* C22 for the messages whose only carriage returns are those of the line
\* endings.
CrLfEquivalenceAtLineEnds ==
  (hIn.kind = "eol" /\ hIn.bad = <<>> /\ (hLast.ret \/ Quiescent)) =>
    SameAsPlain /\ hLast.ret

\* C23: urlunescape(urlencode(s)) = s for every byte string s.
UrlRoundTrip == uOp = "urlunescape" => uOut = uArg

UrlRoundTripWitness ==
  /\ uOp = "urlunescape"
  /\ uArg = <<43, 128>>
  /\ flvSigned
  /\ uOut = uArg

\* Every block of the deque holds at most max bytes.
BlocksAtMost(max) == \A k \in 1..Len(data) : Len(data[k]) <= max

\* No block holds a newline before its last byte.
NewlineEndsBlock ==
  \A k \in 1..Len(data) : \A i \in 1..(Len(data[k]) - 1) : data[k][i] # NL

\* C28 (buffer block size): after any append every block of the buffer holds
\* at most BUFFER_BLOCKSIZE bytes, and a newline is nowhere in a block but at
\* its end.
BlockSizeBound ==
  bufOp = "append" => BlocksAtMost(BUFFER_BLOCKSIZE) /\ NewlineEndsBlock

\* What append does keep: a block holds at most BUFFER_BLOCKSIZE + 1 bytes,
\* and a newline ends its block.
BlockSizeBoundLoose ==
  bufOp = "append" => BlocksAtMost(BUFFER_BLOCKSIZE + 1) /\ NewlineEndsBlock

\* An append of more than a block of bytes without a newline was cut.
BlockSizeBoundLooseWitness ==
  /\ bufOp = "append"
  /\ Len(bufArg) > BUFFER_BLOCKSIZE
  /\ Len(data) > 1
  /\ \E k \in 1..Len(data) : Len(data[k]) = BUFFER_BLOCKSIZE + 1

\* The last operation was an iwrite or iread that called the system.
Attempted ==
  /\ kOp.name \in {"iwrite", "iread"}
  /\ connected(kOp.pre)
  /\ kOp.len >= 1

\* C29 (socket error classification): an iread or iwrite that gets
\* EWOULDBLOCK changes nothing of the Connection and returns 0; one that gets
\* EPIPE closes the Connection and does not set Error; one that gets any
\* other errno sets Error, stores the error's string as remotehost and closes;
\* one that gets 0 bytes on a socket closes and does not set Error.
ErrorClassification ==
  Attempted =>
    /\ (kOp.r < 0 /\ kOp.errno = "EWOULDBLOCK") =>
          /\ cTo = kOp.pre
          /\ kOp.ret = 0
          /\ Len(fdLog) = kOp.start
    /\ (kOp.r < 0 /\ kOp.errno = "EPIPE") =>
          /\ ~connected(cTo)
          /\ cTo.Error = kOp.pre.Error
          /\ cTo.remotehost = kOp.pre.remotehost
    /\ (kOp.r < 0 /\ kOp.errno \notin {"EWOULDBLOCK", "EPIPE"}) =>
          /\ ~connected(cTo)
          /\ cTo.Error
          /\ cTo.remotehost = strerror(kOp.errno)
    /\ (kOp.r = 0 /\ kOp.pre.sock >= 0) =>
          /\ ~connected(cTo)
          /\ cTo.Error = kOp.pre.Error

\* An iread on a pair of pipes got EPIPE: both pipes were closed and Error
\* is not set.
ErrorClassificationWitness ==
  /\ Attempted
  /\ kOp.name = "iread"
  /\ kOp.errno = "EPIPE"
  /\ kOp.pre.pipes = <<4, 5>>
  /\ ~connected(cTo)
  /\ ~cTo.Error
  /\ fdLog = <<4, 5>>

\* The descriptors a Connection holds.
Held(c) == {c.sock, c.pipes[1], c.pipes[2]} \ {-1}

\* C30 (close is idempotent and complete): after close() the Connection is
\* not connected, sock and both pipes are -1 and no descriptor was closed
\* twice; a close() after a close() changes nothing.
CloseComplete ==
  kOp.name = "close" =>
    /\ ~connected(cTo)
    /\ Held(cTo) = {}
    /\ \A i, j \in 1..Len(fdLog) : fdLog[i] = fdLog[j] => i = j
    /\ Held(kOp.pre) = {} => (cTo = kOp.pre /\ Len(fdLog) = kOp.start)

\* What close() does: a connected Connection gives up every descriptor once,
\* and one that is not connected is left as it is.
CloseCompleteConnected ==
  kOp.name = "close" =>
    /\ ~connected(cTo)
    /\ connected(kOp.pre) => Held(cTo) = {}
    /\ \A i, j \in 1..Len(fdLog) : fdLog[i] = fdLog[j] => i = j
    /\ ~connected(kOp.pre) => (cTo = kOp.pre /\ Len(fdLog) = kOp.start)

\* The bytes the last operation sent.
Sent == SubSeq(wire, kOp.len + 1, Len(wire))

\* s holds t.
Contains(s, t) ==
  \E i \in 0..(Len(s) - Len(t)) : SubSeq(s, i + 1, i + Len(t)) = t

\* The header Transfer-Encoding: chunked is among the bytes sent.
CarriesChunked == Contains(Sent, <<13, 10, 84, 114, 97, 110, 115, 102, 101, 114, 45, 69, 110, 99, 111, 100, 105, 110, 103, 58, 32, 99, 104, 117, 110, 107, 101, 100, 13, 10>>)

\* C24 (response mode selection): the response that StartResponse sends
\* carries the header Transfer-Encoding: chunked if and only if the protocol
\* of the request is exactly HTTP/1.1, whatever calls of StartResponse were
\* made on the Parser before.
ResponseMode ==
  (kOp.name = "StartResponse" /\ connected(kOp.pre)) =>
    (CarriesChunked <=> kOp.req = <<72, 84, 84, 80, 47, 49, 46, 49>>)

\* The same for a Parser that did not hold the header before the call.
ResponseModeFresh ==
  (kOp.name = "StartResponse" /\ connected(kOp.pre) /\ ~kOp.had) =>
    (CarriesChunked <=> kOp.req = <<72, 84, 84, 80, 47, 49, 46, 49>>)

\* A request of HTTP/1.10 was answered without the header.
ResponseModeFreshWitness ==
  /\ kOp.name = "StartResponse"
  /\ connected(kOp.pre)
  /\ ~kOp.had
  /\ kOp.req = <<72, 84, 84, 80, 47, 49, 46, 49, 48>>
  /\ Sent = <<72, 84, 84, 80, 47, 49, 46, 49, 48, 32, 50, 48, 48, 32, 79, 75, 13, 10, 83, 101, 114, 118, 101, 114, 58, 32, 109, 13, 10, 13, 10>>

\* The bytes sent since the last StartResponse began, which sent them with
\* the protocol HTTP/1.1.
CarriesChunkedSince == kOp.req = <<72, 84, 84, 80, 47, 49, 46, 49>>

\* The buffer given to the last Chunkify.
LastData == kOp.datas[Len(kOp.datas)]

\* The last Chunkify ended a body of buffers that are not empty.
BodyEnded ==
  /\ Len(kOp.datas) > 1
  /\ \A i \in 1..Len(kOp.datas) : (kOp.datas[i] = <<>>) <=> (i = Len(kOp.datas))

\* What a Chunkify with the protocol HTTP/1.1 is to send for a buffer.
Frame(d) ==
  IF d # <<>> THEN ToHex(DataSize(d)) \o <<13, 10>> \o d \o <<13, 10>>
  ELSE <<48, 13, 10, 13, 10>> \o <<13, 10>>

\* C25 (Chunkify framing): with the protocol HTTP/1.1 a Chunkify of a buffer
\* that is not empty sends the length in hexadecimal, CR LF, the bytes and
\* CR LF, and one of no bytes sends the zero chunk and the final CR LF; with
\* another protocol the bytes are sent as they are and a Chunkify of no bytes
\* closes the connection.  The bytes sent by StartResponse and a sequence of
\* Chunkify calls ending with the empty one give, read by a Parser, the
\* buffers in their order as the body.
ChunkifyFraming ==
  (kOp.name = "Chunkify" /\ connected(kOp.pre)) =>
    /\ parser.protocol = <<72, 84, 84, 80, 47, 49, 46, 49>> =>
          /\ Sent = Frame(LastData)
          /\ connected(cTo)
          /\ (BodyEnded /\ CarriesChunkedSince) =>
                LET e == RunToEnd(NewParser, SubSeq(wire, kOp.start + 1, Len(wire)))
                IN  e.ret /\ e.p.body = Concat(kOp.datas)
    /\ parser.protocol # <<72, 84, 84, 80, 47, 49, 46, 49>> =>
          /\ Sent = LastData
          /\ connected(cTo) <=> LastData # <<>>

\* The same for buffers of fewer than 2^28 bytes.
ChunkifyFramingShort ==
  (/\ kOp.name = "Chunkify" /\ connected(kOp.pre)
   /\ \A i \in 1..Len(kOp.datas) : DataSize(kOp.datas[i]) < BigSize) =>
    /\ parser.protocol = <<72, 84, 84, 80, 47, 49, 46, 49>> =>
          /\ Sent = Frame(LastData)
          /\ connected(cTo)
          /\ (BodyEnded /\ CarriesChunkedSince) =>
                LET e == RunToEnd(NewParser, SubSeq(wire, kOp.start + 1, Len(wire)))
                IN  e.ret /\ e.p.body = Concat(kOp.datas)
    /\ parser.protocol # <<72, 84, 84, 80, 47, 49, 46, 49>> =>
          /\ Sent = LastData
          /\ connected(cTo) <=> LastData # <<>>

\* The body a, bc LF was sent in chunks and ended.
ChunkifyFramingShortWitness ==
  /\ kOp.name = "Chunkify"
  /\ connected(kOp.pre)
  /\ parser.protocol = <<72, 84, 84, 80, 47, 49, 46, 49>>
  /\ kOp.datas = <<<<97>>, <<98, 99, 10>>, <<>>>>
  /\ RunToEnd(NewParser, wire).p.body = <<97, 98, 99, 10>>

\* The bytes the pump has sent after the headers.
Forwarded == SubSeq(wire, kOp.start + 1, Len(wire))

\* s is the beginning of t.
IsPrefix(s, t) == Len(s) <= Len(t) /\ s = SubSeq(t, 1, Len(s))

\* C26 (Proxy in Content-Length mode): the bytes forwarded after the headers
\* are, in their order, the first bytes the source gave, never more than
\* length of them; as long as the sink takes what it is sent, no byte is
\* lost and the bytes behind the body stay in the buffer of the source; the
\* pump has returned only if length bytes are forwarded or one of the
\* Connections is not connected.
ProxyLengthExact ==
  (hIn.kind = "proxy-length" /\ kOp.name = "Proxy") =>
    /\ IsPrefix(Forwarded, SubSeq(AllInput, 1, Min(hIn.length, Len(AllInput))))
    /\ connected(cTo) =>
          /\ Forwarded \o Flatten(conn) = SubSeq(AllInput, 1, hApp)
          /\ px.bodyLen = hIn.length - Len(Forwarded)
    /\ px.pc = "done" =>
          \/ Len(Forwarded) = hIn.length
          \/ ~connected(cTo)
          \/ ~connected(cFrom)

\* A body of four bytes that came in two parts was forwarded and the pump
\* returned with the bytes behind the body in the buffer.
ProxyLengthExactWitness ==
  /\ hIn.kind = "proxy-length"
  /\ px.pc = "done"
  /\ connected(cTo) /\ connected(cFrom)
  /\ Forwarded = <<97, 98, 10, 99>>
  /\ Flatten(conn) = <<120, 10, 121>>
  /\ wire = LengthHead(4) \o <<97, 98, 10, 99>>

\* C27 (Proxy in chunked mode): the bytes forwarded after the headers are, in
\* their order, bytes of the chunked body of the source, from its first
\* chunk-size line on; when the pump has returned with both Connections
\* connected they are the whole body, through the zero-length chunk and its
\* final CR LF, and getChunks is false; the pump returns for no other line
\* than that of the zero-length chunk.
ProxyChunkedExact ==
  (hIn.kind = "proxy-chunked" /\ kOp.name = "Proxy") =>
    /\ IsPrefix(Forwarded, hIn.msg)
    /\ (px.pc = "done" /\ connected(cTo) /\ connected(cFrom)) =>
          Forwarded = hIn.msg /\ ~parser.getChunks
    /\ ~parser.getChunks =>
          /\ px.pc = "done"
          /\ connected(kOp.pre) => hApp >= Len(hIn.msg) - 2
          /\ connected(cTo) => Forwarded = hIn.msg

\* The body whose only chunk is the text of a zero-length chunk was
\* forwarded and the pump returned, the bytes of the source having come in
\* pieces that do not end where lines do.
ProxyChunkedExactWitness ==
  /\ hIn.kind = "proxy-chunked"
  /\ hIn.chunks = <<<<48, 13, 10>>>>
  /\ px.pc = "done"
  /\ connected(cTo) /\ connected(cFrom)
  /\ ~parser.getChunks
  /\ Forwarded = <<51, 13, 10, 48, 13, 10, 13, 10, 48, 13, 10, 13, 10>>
  /\ \E i \in 1..Len(conn) : conn[i] = <<13>>

\* The bytes the descriptor took during the last call.
WrittenBy == Len(wire) - Len(sOp.wire)

ToSend == Flatten(sOp.upbuffer) \o sOp.d

\* What the last call, a SendNow on a socket, wrote is the bytes queued and
\* then those of data, in order; all of them unless the Connection is not
\* connected any more; and the socket blocks as it did before.
SendNowInOrder ==
  /\ IsPrefix(wire, sOp.wire \o ToSend)
  /\ IsPrefix(sOp.wire, wire)
  /\ connected(cTo) =>
       /\ wire = sOp.wire \o ToSend
       /\ upbuffer = <<>>
       /\ isBlocking(cTo, fdFlags) = isBlocking(sOp.c, sOp.fdFlags)

\* C32 (SendNow ordering and mode restore): SendNow(data, len) on a
\* connected socket writes the bytes queued in the send buffer and then the
\* len bytes of data, each once and in order, no write after those of the
\* queue taking more than 51200 bytes; when it returns all len bytes were
\* written or the Connection is not connected, and the socket blocks or
\* does not as before the call.
SendNowOrdered ==
  (sOp.name = "SendNow" /\ sOp.c.sock >= 0) =>
    /\ SendNowInOrder
    /\ \A i \in (sOp.drained + 1)..Len(sOp.sizes) : sOp.sizes[i] <= SendNowMax

\* The same with the bound on the writes after the first one of data only.
SendNowOrderedAfterFirst ==
  (sOp.name = "SendNow" /\ sOp.c.sock >= 0) =>
    /\ SendNowInOrder
    /\ \A i \in (sOp.drained + 2)..Len(sOp.sizes) : sOp.sizes[i] <= SendNowMax

\* SendNow wrote two queued bytes in two writes and then its data in two,
\* on a socket that does not block.
SendNowOrderedAfterFirstWitness ==
  /\ sOp.name = "SendNow"
  /\ sOp.c.sock >= 0
  /\ ~isBlocking(sOp.c, sOp.fdFlags)
  /\ connected(cTo)
  /\ sOp.drained = 2
  /\ Len(sOp.sizes) = 4
  /\ Len(sOp.d) = 3

\* C37 (Send preserves byte order): on a Connection that stays connected,
\* whatever number of bytes each write takes, the bytes written followed by
\* the bytes queued in the send buffer, oldest first, are the bytes given so
\* far in their order: none is lost, doubled or moved, and no byte is
\* written while an older one is queued.
SendPreservesOrder ==
  connected(cTo) => wire \o Flatten(upbuffer) = given

\* Send was called with bytes queued: one of them was written, and the data
\* was put behind those left.
SendPreservesOrderWitness ==
  /\ sOp.name = "Send"
  /\ connected(cTo)
  /\ Len(Flatten(sOp.upbuffer)) = 3
  /\ wire = sOp.wire \o SubSeq(Flatten(sOp.upbuffer), 1, 1)
  /\ Flatten(upbuffer) = SubSeq(Flatten(sOp.upbuffer), 2, 3) \o sOp.d
  /\ Len(sOp.d) = 3

\* C38 (SeekPos ordering is a strict order): the comparison that orders the
\* set of seek positions, by seekTime, then bytePos, then trackID, is
\* irreflexive, asymmetric and transitive: no two positions are each less
\* than the other.
SeekPosStrictOrder ==
  spLess # <<>> =>
    /\ \A i \in 1..3 : ~spLess[i][i]
    /\ \A i, j \in 1..3 : spLess[i][j] => ~spLess[j][i]
    /\ \A i, j, k \in 1..3 : (spLess[i][j] /\ spLess[j][k]) => spLess[i][k]

\* What holds of the comparison: no position is less than itself, and of
\* two positions of different seekTime exactly one is less than the other.
SeekPosIrreflexive ==
  spLess # <<>> =>
    /\ \A i \in 1..3 : ~spLess[i][i]
    /\ \A i, j \in 1..3 :
         spTriple[i].seekTime # spTriple[j].seekTime => spLess[i][j] # spLess[j][i]

\* checkBufferSize, called on t, finds that realloc gives no memory.
ReallocFails(t, ok) == (t.buf < t.len \/ t.buf = 0) /\ ~ok

\* A call of MemLoader on t0 in which realloc fails.
MemLoaderReallocFails(t0, D, S, P, signed, ok1, ok2) ==
  LET c == checkBufferSize(IF t0.len < 15 THEN [t0 EXCEPT !.len = 15] ELSE t0, ok1)
      r == MemReadUntil(c.t.data, 11, c.t.sofar, D, S, P)
      u == [c.t EXCEPT !.data = r.buffer, !.sofar = r.sofar]
  IN  \/ ~c.ret
      \/ /\ c.t.done
         /\ r.ret
         /\ ~is_header(u.data)
         /\ ReallocFails([u EXCEPT !.len = HeaderLen(u.data, signed)], ok2)

\* C36 (Tag buffer capacity and allocation failure): buf >= len holds in
\* every state reached through the loaders, and a call in which a
\* reallocation fails sets len to the capacity, returns false and changes
\* no byte of data.
TagBufferUntouched ==
  /\ [](tag.buf >= tag.len)
  /\ [][\A ok1, ok2 \in BOOLEAN :
         LET D == SubSeq(flvIn, flvOff + 1, flvOff + flvS)
             o == MemLoader(tag, Parse_Error, Header, D, flvS, flvP, flvSigned,
                            ok1, ok2)
         IN  (/\ tag' = o.t
              /\ flvP' = o.P
              /\ MemLoaderReallocFails(tag, D, flvS, flvP, flvSigned, ok1, ok2))
               => (~o.ret /\ tag'.len = tag'.buf /\ tag'.data = tag.data)]_vars

\* The same without the bytes of data: a call in which a reallocation fails
\* sets len to the capacity and returns false.
TagBufferClamped ==
  /\ [](tag.buf >= tag.len)
  /\ [][\A ok1, ok2 \in BOOLEAN :
         LET D == SubSeq(flvIn, flvOff + 1, flvOff + flvS)
             o == MemLoader(tag, Parse_Error, Header, D, flvS, flvP, flvSigned,
                            ok1, ok2)
         IN  (/\ tag' = o.t
              /\ flvP' = o.P
              /\ MemLoaderReallocFails(tag, D, flvS, flvP, flvSigned, ok1, ok2))
               => (~o.ret /\ tag'.len = tag'.buf)]_vars

(***************************************************************************)
(* The header of the MP4 converter.                                        *)
(***************************************************************************)
RECURSIVE SumSeq(_)
SumSeq(s) == IF s = <<>> THEN 0 ELSE Head(s) + SumSeq(Tail(s))

\* The sizes of the parts of all keys of a track, and of all tracks.
PartsOfTrack(track) == StszEntries(track.keys)
RECURSIVE AllParts(_)
AllParts(tracks) ==
  IF tracks = <<>> THEN <<>> ELSE PartsOfTrack(Head(tracks)) \o AllParts(Tail(tracks))

\* The number the four bytes before "mdat" stand for.
MdatWritten == mp4Header.mdat[1] * 16777216 + mp4Header.mdat[2] * 65536
                 + mp4Header.mdat[3] * 256 + mp4Header.mdat[4]

\* Every key has its parts counted and summed in its fields.
WellFormed(tracks) ==
  \A t \in 1..Len(tracks) : \A k \in 1..Len(tracks[t].keys) :
    LET key == tracks[t].keys[k]
    IN  /\ key.size = SumSeq(key.parts)
        /\ key.partsize = Len(key.parts)
        /\ key.size > 0

\* C34 (mdat size): the size written before "mdat" is the sum of the sizes
\* of all parts of all tracks, whatever the order of the tracks and whether
\* or not the size of a key is the sum of its parts.
MdatSizeIsSum ==
  mp4Header # <<>> => MdatWritten = SumSeq(AllParts(metaData))

\* The same for metadata in which the fields of every key fit its parts.
MdatSizeIsSumWellFormed ==
  (mp4Header # <<>> /\ WellFormed(metaData))
    => MdatWritten = SumSeq(AllParts(metaData))

\* The two tracks of the example, a part of 1000 and one of 200 bytes, in
\* either order: 1200 is written.
MdatSizeExample ==
  (/\ mp4Header # <<>>
   /\ metaData \in {<<VideoTrack(<<KeyOf(0, 1, 1000)>>), AudioTrack(<<KeyOf(0, 1, 200)>>)>>,
                    <<AudioTrack(<<KeyOf(0, 1, 200)>>), VideoTrack(<<KeyOf(0, 1, 1000)>>)>>})
    => MdatWritten = 1200

\* The parts of the keys of keyParts in the order of the set, the parts of
\* a key in their own order: the order in which the media is to follow the
\* header.
RECURSIVE Interleaved(_)
Interleaved(kp) ==
  IF kp = <<>> THEN <<>>
  ELSE [i \in 1..Len(Head(kp).parts) |->
          [trackID |-> Head(kp).trackID, size |-> Head(kp).parts[i]]]
         \o Interleaved(Tail(kp))

\* The parts of track t among the first p of the stream.
CountOf(stream, t, p) == Cardinality({q \in 1..p : stream[q].trackID = t})

\* The place in the stream of the i-th part of track t.
PlaceOf(stream, t, i) ==
  CHOOSE p \in 1..Len(stream) : stream[p].trackID = t /\ CountOf(stream, t, p) = i

\* The bytes of the parts before place p.
BytesBefore(stream, p) == SumSeq([q \in 1..(p - 1) |-> stream[q].size])

OffsetsOf(trak, stream, byteOffset) ==
  /\ Len(trak.stco) = CountOf(stream, trak.trackid, Len(stream))
  /\ \A i \in 1..Len(trak.stco) :
       trak.stco[i] = byteOffset + BytesBefore(stream, PlaceOf(stream, trak.trackid, i))

\* C33 (MP4 chunk offsets): in the header made, the i-th stco entry of
\* every track is the size of ftyp and moov plus 8 plus the sizes of all
\* parts, of any track, before the i-th part of the track in the interleave
\* order of keyParts.
ChunkOffsets ==
  mp4Header # <<>> =>
    /\ mp4Header.byteOffset = boxedSize(mp4Header.traks) + 8
    /\ \A x \in 1..Len(mp4Header.traks) :
         OffsetsOf(mp4Header.traks[x], Interleaved(keyParts), mp4Header.byteOffset)

\* The same for metadata in which the fields of every key fit its parts.
ChunkOffsetsWellFormed ==
  (mp4Header # <<>> /\ WellFormed(metaData)) =>
    /\ mp4Header.byteOffset = boxedSize(mp4Header.traks) + 8
    /\ \A x \in 1..Len(mp4Header.traks) :
         OffsetsOf(mp4Header.traks[x], Interleaved(keyParts), mp4Header.byteOffset)

TablesOf(trak, track, stream) ==
  /\ trak.stts = Len(PartsOfTrack(track))
  /\ Len(trak.stsz) = Len(PartsOfTrack(track))
  /\ Len(trak.stco) = Len(PartsOfTrack(track))
  /\ \A i \in 1..Len(trak.stco) :
       /\ i <= Len(trak.stsz)
       /\ i <= CountOf(stream, trak.trackid, Len(stream))
       /\ trak.stsz[i] = stream[PlaceOf(stream, trak.trackid, i)].size

\* C39 (MP4 sample table consistency): for every track of the header made,
\* the sample count of stts, the number of entries of stsz and the number
\* of entries of stco are the number of parts of the track, and the i-th
\* size of stsz is the size of the part at the i-th offset of stco, also
\* when the size of a key is 0 or its partsize is not the number of its
\* parts.
SampleTables ==
  mp4Header # <<>> =>
    \A x \in 1..Len(mp4Header.traks) :
      TablesOf(mp4Header.traks[x], metaData[x], Interleaved(keyParts))

\* The same for metadata in which the fields of every key fit its parts.
SampleTablesWellFormed ==
  (mp4Header # <<>> /\ WellFormed(metaData)) =>
    \A x \in 1..Len(mp4Header.traks) :
      TablesOf(mp4Header.traks[x], metaData[x], Interleaved(keyParts))

(***************************************************************************)
(* The interleaver of the MP4 converter.                                   *)
(***************************************************************************)
\* The bytes put out so far, fetched or not.
Emitted == mFetched \o stringBuffer

\* The header is made and exactly the parts of the keys have been given.
AllFed == mp4Header # <<>> /\ \A t \in 1..2 : mFed[t] = Len(Planned(t))

\* No part beyond those of the keys has been given.
NoExtra == \A t \in 1..2 : mFed[t] <= Len(Planned(t))

\* The payloads in the order of keyParts: partsize parts of the track of a
\* key, then those of the next key.
PlanBytesOf(stream) ==
  Concat([p \in 1..Len(stream) |->
            MediaPart(stream[p].trackID, CountOf(stream, stream[p].trackID, p)).data])

PlanBytes == PlanBytesOf(Interleaved(keyParts))

\* How often the bytes of the n-th part of track t are in s.
Times(s, t, n) == Cardinality({i \in 1..Len(s) : s[i] = <<t, n>>})

\* The bytes of the parts queued.
QueuedOf(q) == Concat([i \in 1..Len(q) |-> q[i].data])
Queued == Concat([t \in 1..3 |-> QueuedOf(trackBuffer[t - 1])])

ReadyWhilePending ==
  /\ mp4Header # <<>> => mOp.ready = (Len(stringBuffer) > 0)
  /\ mOp.name = "sendString" => ~mOp.ready

\* C40 (interleaver completeness and bounds): when exactly the parts of the
\* keys have been given to parseDTSC, every payload has been put out once
\* and no queue holds a part; the iterator is never read at end(); and
\* sendReady() is true exactly while bytes put out are not fetched, false
\* right after sendString().
InterleaverComplete ==
  /\ AllFed =>
       /\ \A t \in 1..2 : \A n \in 1..Len(Planned(t)) :
            Times(Emitted, t, n) = Planned(t)[n]
       /\ \A t \in DOMAIN trackBuffer : trackBuffer[t] = <<>>
  /\ NoExtra => ~mOp.end
  /\ ReadyWhilePending

\* What holds of it: no byte given is lost or doubled, being put out or in
\* a queue; the iterator is not read at end() while no more than the parts
\* of the keys are given; sendReady() is as claimed.
InterleaverKeeps ==
  /\ (mp4Header # <<>> /\ NoExtra) =>
       \A t \in 1..2 : \A n \in 1..Len(Planned(t)) :
         Times(Emitted, t, n) + Times(Queued, t, n)
           = IF n <= mFed[t] THEN Planned(t)[n] ELSE 0
  /\ NoExtra => ~mOp.end
  /\ ReadyWhilePending

\* The iterator is read at end() when a part beyond those of the keys is
\* given.
InterleaverNeverAtEnd == ~mOp.end

\* The bytes put out, track by track, are in the order in which the parts
\* were given.
ArrivalOrder ==
  \A i \in 1..Len(Emitted) : \A j \in i..Len(Emitted) :
    Emitted[i][1] = Emitted[j][1] => Emitted[i][2] <= Emitted[j][2]

\* The first byte of the n-th part of track t is at the offset stco has.
StartsAtOffset(trak) ==
  \A n \in 1..Len(Planned(trak.trackid)) :
    \E i \in 1..Len(Emitted) :
      /\ Emitted[i] = <<trak.trackid, n>>
      /\ \A j \in 1..(i - 1) : Emitted[j] # <<trak.trackid, n>>
      /\ n <= Len(trak.stco)
      /\ trak.stco[n] = mp4Header.byteOffset + (i - 1)

\* C35 (interleaver output order): the parts of each track given in their
\* order, the bytes parseDTSC has put out over the whole run are the
\* payloads in the order of keyParts, each part at the offset stco has for
\* it, and the parts of a track are put out in the order they were given.
InterleaverOrder ==
  /\ AllFed =>
       /\ Emitted = PlanBytes
       /\ \A x \in 1..Len(mp4Header.traks) : StartsAtOffset(mp4Header.traks[x])
  /\ NoExtra => ArrivalOrder

\* What holds of it: the bytes put out are at any time the first of the
\* payloads in the order of keyParts.
InterleaverOrderSoFar ==
  (mp4Header # <<>> /\ NoExtra) =>
    /\ Len(Emitted) <= Len(PlanBytes)
    /\ Emitted = SubSeq(PlanBytes, 1, Len(Emitted))
    /\ ArrivalOrder
================================================================================
